---- MODULE Spec2Model ----
(***************************************************************************)
(* A model of pmoired/oifits.py: loadOI (ingestion of an OIFITS file into  *)
(* a dataset), mergeOI (union of datasets of one setup), _allInOneOI       *)
(* (collapse), _filtErr/_filtFlag (error filters) and binOI (rebinning).   *)
(*                                                                         *)
(* Conventions of the model                                                *)
(*  - a name (telescope, baseline, triangle) is the sequence of its        *)
(*    characters, so that the slices k[:2*n], k[n:] of the code are        *)
(*    SubSeq and the concatenation of station names is \o;                 *)
(*  - a python dict is an ordered dictionary [ks |-> keys in insertion     *)
(*    order, f |-> key -> value];                                          *)
(*  - a 1D numpy array is a sequence, a 2D array a sequence of rows;       *)
(*  - MJD is counted in units of 0.5e-4 day, so the tolerance 1e-4 is 2;   *)
(*  - a wavelength is counted in units of 1e-9 um;                         *)
(*  - a cell of 'u/wl' holds the numerator u of u/WL[j], a cell of 'B/wl'  *)
(*    the squared numerator u^2+v^2, a cell of 'PA' the pair <<v, u>> the  *)
(*    angle is taken of;                                                   *)
(*  - NaN is the non-finite float; an exception raised by the code is a    *)
(*    result with st = "raise".                                            *)
(***************************************************************************)
EXTENDS Integers, Sequences, FiniteSets, TLC

VARIABLES OI, res, ret, disk, kept

vars == <<OI, res, ret, disk, kept>>

\* the value x with its functions tabulated, so that it is computed once
Eager(x) == IF x = x THEN x ELSE x

NaN == -99999

isfinite(x) == x # NaN

None == "None"

(***************************************************************************)
(* Sequences and arrays                                                    *)
(***************************************************************************)
\* a loop: acc = Op(acc, x) for x in seq (Eager: every step is computed before
\* the next one starts)
RECURSIVE Fold(_, _, _)
Fold(Op(_, _), acc, seq) ==
    IF seq = <<>> THEN acc
    ELSE IF acc = acc THEN Fold(Op, Op(acc, Head(seq)), Tail(seq))
    ELSE acc

Rep(n, x) == [i \in 1..n |-> x]

Range(s) == {s[i] : i \in 1..Len(s)}

RECURSIVE Flatten(_)
Flatten(ss) == IF ss = <<>> THEN <<>> ELSE Head(ss) \o Flatten(Tail(ss))

RECURSIVE SumSeq(_)
SumSeq(s) == IF s = <<>> THEN 0 ELSE Head(s) + SumSeq(Tail(s))

Abs(x) == IF x < 0 THEN -x ELSE x

Max2(a, b) == IF a >= b THEN a ELSE b

\* the indices of s, in order, whose element satisfies the mask m (a boolean sequence)
Where(m) == SelectSeq([i \in 1..Len(m) |-> i], LAMBDA i : m[i])

\* numpy's a[w] for a boolean mask w
Mask(a, w) == [i \in 1..Len(Where(w)) |-> a[Where(w)[i]]]

\* first index of the minimum of a non-empty sequence: np.argmin (1-based)
ArgMin(s) == CHOOSE i \in 1..Len(s) :
                /\ \A j \in 1..Len(s) : s[i] <= s[j]
                /\ \A j \in 1..(i-1) : s[j] > s[i]

MinSeq(s) == s[ArgMin(s)]

\* first index of x in s: list.index (1-based)
IndexOf(s, x) == CHOOSE i \in 1..Len(s) : s[i] = x /\ \A j \in 1..(i-1) : s[j] # x

\* list(dict.fromkeys(s)): s without its repetitions, first occurrences kept
RECURSIVE Dedup(_)
Dedup(s) == IF s = <<>> THEN <<>>
            ELSE LET d == Dedup(SubSeq(s, 1, Len(s)-1))
                 IN IF s[Len(s)] \in Range(d) THEN d ELSE Append(d, s[Len(s)])

\* width of a 2D array (0 when it has no row)
Width(a) == IF a = <<>> THEN 0 ELSE Len(a[1])

(***************************************************************************)
(* Ordered dictionaries                                                    *)
(***************************************************************************)
EmptyD == [ks |-> <<>>, f |-> <<>>]

Has(d, k) == k \in Range(d.ks)

Put(d, k, v) ==
    [ks |-> IF Has(d, k) THEN d.ks ELSE Append(d.ks, k),
     f  |-> Eager([x \in Range(d.ks) \cup {k} |-> IF x = k THEN v ELSE d.f[x]])]

Pop(d, k) ==
    [ks |-> SelectSeq(d.ks, LAMBDA x : x # k),
     f  |-> [x \in Range(d.ks) \ {k} |-> d.f[x]]]

\* a dict literal {k1: v1, ...} from its keys and a record-like function
Dict(keys, fn) == [ks |-> keys, f |-> [x \in Range(keys) |-> fn[x]]]

(***************************************************************************)
(* Floating point, as far as the code depends on it                        *)
(***************************************************************************)
Mul(a, b) == IF a = NaN \/ b = NaN THEN NaN ELSE a * b

\* np.maximum(a, b): NaN if either is NaN
FMax(a, b) == IF a = NaN \/ b = NaN THEN NaN ELSE Max2(a, b)

\* a >= b on floats: False if either is NaN
FGe(a, b) == a # NaN /\ b # NaN /\ a >= b

FAbs(a) == IF a = NaN THEN NaN ELSE Abs(a)

\* a fraction given in percent times a value
Pct(p, a) == IF a = NaN \/ p = NaN THEN NaN ELSE (p * a) \div 100

Map2(Op(_), a) == [i \in 1..Len(a) |-> [j \in 1..Len(a[i]) |-> Op(a[i][j])]]

Zip2(Op(_, _), a, b) == [i \in 1..Len(a) |-> [j \in 1..Len(a[i]) |-> Op(a[i][j], b[i][j])]]

\* np.mean of a 2D array
Mean2(a) == LET flat == Flatten(a)
            IN IF flat = <<>> \/ NaN \in Range(flat) THEN NaN
               ELSE SumSeq(flat) \div Len(flat)

(***************************************************************************)
(* Rebinning: _binVec and binOI                                            *)
(***************************************************************************)
\* np.linspace(a, b, n)
Linspace(a, b, n) == [i \in 1..n |-> IF n = 1 THEN a ELSE a + ((i-1) * (b-a)) \div (n-1)]

\* np.median(np.diff(x)): NaN when x has fewer than two points
MedianDiff(x) ==
    IF Len(x) < 2 THEN NaN
    ELSE LET d == [i \in 1..(Len(x)-1) |-> x[i+1] - x[i]]
             kth(k) == CHOOSE v \in Range(d) :
                          /\ Cardinality({i \in 1..Len(d) : d[i] < v}) <= k-1
                          /\ Cardinality({i \in 1..Len(d) : d[i] <= v}) >= k
             n == Len(d)
         IN IF n % 2 = 1 THEN kth((n+1) \div 2)
            ELSE (kth(n \div 2) + kth(n \div 2 + 1)) \div 2

\* 10000*exp(-r^2/0.36) for r = 0, 0.1, ..., 2.0
KernelTable == <<10000, 9726, 8948, 7788, 6412, 4994, 3679, 2564, 1690, 1054,
                 622, 347, 183, 91, 43, 19, 8, 3, 1, 0, 0>>

\* k = exp(-(X-x0)^2/(0.6*dx)^2), scaled by 10000, |X-x0|/dx rounded to a tenth
Kernel(X, x0, dx) ==
    LET r == (Abs(X - x0) + dx \div 20) \div (dx \div 10)
    IN IF r + 1 > Len(KernelTable) THEN 0 ELSE KernelTable[r + 1]

\* the weight 1/E of _binVec, scaled by 12
InvE(e) == IF e = NaN \/ e = 0 THEN NaN ELSE 12 \div e

\* _binVec(x, X, Y, E): y[i] = sum(k*Y/E)/sum(k/E); E = None is <<>>
binVec(x, X, Y, E) ==
    LET dx == MedianDiff(x)
        EE == IF E = <<>> THEN Rep(Len(Y), 12) ELSE [i \in 1..Len(Y) |-> InvE(E[i])]
        one(x0) ==
            IF dx = NaN \/ dx < 10 \/ Y = <<>> \/ NaN \in Range(Y) \/ NaN \in Range(EE)
            THEN NaN
            ELSE LET num == SumSeq([i \in 1..Len(Y) |-> Kernel(X[i], x0, dx) * Y[i] * EE[i]])
                     den == SumSeq([i \in 1..Len(Y) |-> Kernel(X[i], x0, dx) * EE[i]])
                 IN IF den = 0 THEN NaN ELSE num \div den
    IN [i \in 1..Len(x) |-> one(x[i])]

\* the binned flag of one row: _binVec(_wl, WL, float(F)) > 0.5
binFlagRowHalf(wl, WL, Frow) ==
    LET dx == MedianDiff(wl)
        one(x0) ==
            IF dx = NaN \/ dx < 10 THEN FALSE
            ELSE LET num == SumSeq([i \in 1..Len(Frow) |->
                                      IF Frow[i] THEN Kernel(WL[i], x0, dx) ELSE 0])
                     den == SumSeq([i \in 1..Len(Frow) |-> Kernel(WL[i], x0, dx)])
                 IN 2 * num > den
    IN [i \in 1..Len(wl) |-> one(wl[i])]

\* mutant: a binned channel is flagged as soon as one raw channel is
binFlagRowAny(wl, WL, Frow) == [i \in 1..Len(wl) |-> TRUE \in Range(Frow)]

binFlagRow(wl, WL, Frow) == binFlagRowHalf(wl, WL, Frow)

\* binOI(_wl, WL, T, F, E): [res, flag]
binOI(wl, WL, T, F, E) ==
    [res  |-> [i \in 1..Len(T) |->
                 LET w == [j \in 1..Len(F[i]) |-> ~F[i][j]]
                 IN binVec(wl, Mask(WL, w), Mask(T[i], w),
                           IF E = <<>> THEN <<>> ELSE Mask(E[i], w))],
     flag |-> [i \in 1..Len(T) |-> binFlagRow(wl, WL, F[i])]]

(***************************************************************************)
(* Error filters: _filtErr and _filtFlag                                   *)
(* A table (ext) is an ordered dict of fields; a filter (filt, the 'fit'   *)
(* dict) maps a rule name to a dict observable -> number.                  *)
(***************************************************************************)
\* 'E'+t for the observables the tables hold
EName(t) == CASE t = "V2"    -> "EV2"
              [] t = "|V|"   -> "E|V|"
              [] t = "PHI"   -> "EPHI"
              [] t = "FLUX"  -> "EFLUX"
              [] t = "T3AMP" -> "ET3AMP"
              [] t = "T3PHI" -> "ET3PHI"
              [] OTHER       -> None

\* t[1:] if t.startswith('E'), among the fields the tables hold
StripE(t) == CASE t = "EV2"    -> "V2"
               [] t = "E|V|"   -> "|V|"
               [] t = "EPHI"   -> "PHI"
               [] t = "EFLUX"  -> "FLUX"
               [] t = "ET3AMP" -> "T3AMP"
               [] t = "ET3PHI" -> "T3PHI"
               [] OTHER        -> None

Rule(filt, rule, t) == rule \in DOMAIN filt /\ t \in DOMAIN filt[rule]

\* mutant: the floor is applied before the multiplication
filtErrFloorFirst(t, ext, filt) ==
    LET e0 == ext.f[EName(t)]
        e1 == IF Rule(filt, "min error", t)
              THEN Map2(LAMBDA x : FMax(filt["min error"][t], x), e0) ELSE e0
        e2 == IF Rule(filt, "mult error", t)
              THEN Map2(LAMBDA x : Mul(x, filt["mult error"][t]), e1) ELSE e1
        e3 == IF Rule(filt, "min relative error", t)
              THEN Zip2(LAMBDA x, y : FMax(Pct(filt["min relative error"][t], FAbs(y)), x),
                        e2, ext.f[t])
              ELSE e2
    IN e3

filtErr(t, ext, filt) ==
    LET e0 == ext.f[EName(t)]
        e1 == IF Rule(filt, "mult error", t)
              THEN Map2(LAMBDA x : Mul(x, filt["mult error"][t]), e0) ELSE e0
        e2 == IF Rule(filt, "min error", t)
              THEN Map2(LAMBDA x : FMax(filt["min error"][t], x), e1) ELSE e1
        e3 == IF Rule(filt, "min relative error", t)
              THEN Zip2(LAMBDA x, y : FMax(Pct(filt["min relative error"][t], FAbs(y)), x),
                        e2, ext.f[t])
              ELSE e2
    IN e3

\* the 'fit' dict as _filtFlag leaves it (the NFLUX kludge writes into it)
filtFlagFilt(ext, filt) ==
    IF ~("max error" \in DOMAIN filt) /\ ~("max relative error" \in DOMAIN filt) THEN filt
    ELSE IF Has(ext, "FLUX") /\ Rule(filt, "max error", "NFLUX")
         THEN [filt EXCEPT !["max error"] =
                  [k \in DOMAIN filt["max error"] \cup {"FLUX"} |->
                      IF k = "FLUX" THEN Mul(filt["max error"]["NFLUX"], Mean2(ext.f["FLUX"]))
                      ELSE filt["max error"][k]]]
         ELSE filt

filtFlagCode(ext, filt) ==
    LET flt  == filtFlagFilt(ext, filt)
        alias(k) == IF k = "DPHI" THEN "PHI" ELSE k
        maxk == IF "max error" \in DOMAIN flt
                THEN {alias(k) : k \in DOMAIN flt["max error"]} \cap DOMAIN flt["max error"]
                ELSE {}
        relk == IF "max relative error" \in DOMAIN flt
                THEN DOMAIN flt["max relative error"] ELSE {}
        hit(i, j) ==
            \/ \E k \in maxk : /\ EName(k) # None /\ Has(ext, EName(k))
                               /\ FGe(ext.f[EName(k)][i][j], flt["max error"][k])
            \/ \E k \in relk : /\ EName(k) # None /\ Has(ext, EName(k))
                               /\ FGe(ext.f[EName(k)][i][j],
                                      Pct(flt["max relative error"][k], FAbs(ext.f[k][i][j])))
        F == ext.f["FLAG"]
    IN IF ~("max error" \in DOMAIN filt) /\ ~("max relative error" \in DOMAIN filt) THEN F
       ELSE [i \in 1..Len(F) |-> [j \in 1..Len(F[i]) |-> F[i][j] \/ hit(i, j)]]

\* mutant: the mask is rebuilt from the error rules alone (FLAG is not the start)
filtFlagFresh(ext, filt) ==
    LET F == ext.f["FLAG"]
        G == filtFlagCode([ext EXCEPT !.f["FLAG"] = Map2(LAMBDA x : FALSE, F)], filt)
    IN IF ~("max error" \in DOMAIN filt) /\ ~("max relative error" \in DOMAIN filt) THEN F ELSE G

\* mutant: the 'max relative error' rule is left out
filtFlagAbsOnly(ext, filt) ==
    IF "max relative error" \in DOMAIN filt /\ ~("max error" \in DOMAIN filt)
    THEN ext.f["FLAG"]
    ELSE filtFlagCode(ext, [r \in DOMAIN filt \ {"max relative error"} |-> filt[r]])

filtFlag(ext, filt) == filtFlagCode(ext, filt)

(***************************************************************************)
(* The raw file, as the FITS reader hands it over.                         *)
(*   file = [fid, targets, wave, hdus]                                     *)
(*   targets: the rows <<TARGET, TARGET_ID>> of OI_TARGET                  *)
(*   wave:    the OI_WAVELENGTH extensions [insname, wl], in file order    *)
(*   hdus:    the data extensions [ext, insname, rows], in file order      *)
(*   row = [sta, targ, mjd, uv, d, e, d2, e2, flag]: station names, target *)
(*         id, epoch, coordinates, and per channel: first observable, its  *)
(*         error, second observable, its error, flag                       *)
(***************************************************************************)
Reverse(s) == [i \in 1..Len(s) |-> s[Len(s) + 1 - i]]

\* the order in which python iterates over set(lst); ho is the hash order
SetIter(lst, ho) == IF ho = "fwd" THEN Dedup(lst) ELSE Reverse(Dedup(lst))

\* oiarray[s[0]]+oiarray[s[1]]...: the name of a row
NameOf(r) == Flatten(r.sta)

Col(rows, fld) == [i \in 1..Len(rows) |-> rows[i][fld]]

\* UCOORD[w][:,None]/WL[None,:]: one numerator per channel
OverWL(vec, wl) == [i \in 1..Len(vec) |-> Rep(Len(wl), vec[i])]

\* np.sqrt(a**2+b**2) on numerators: the squared length
Hyp2(a, b) == Zip2(LAMBDA x, y : x*x + y*y, a, b)

\* np.angle(v/wl + 1j*u/wl): the pair the angle is taken of
Angle2(vwl, uwl) == Zip2(LAMBDA x, y : <<x, y>>, vwl, uwl)

\* np.logical_or(FLAG, ~np.isfinite(A))
OrNonFinite(F, A) == Zip2(LAMBDA x, y : x \/ ~isfinite(y), F, A)

\* np.append(a, b, axis=0) is defined when the widths agree
CanAppend2(a, b) == a = <<>> \/ b = <<>> \/ Width(a) = Width(b)

\* the targets dict of loadOI: name -> the ids listed under that name
TargetIds(file, name) ==
    {file.targets[i][2] : i \in {j \in 1..Len(file.targets) : file.targets[j][1] = name}}

TargetNames(file) == Dedup([i \in 1..Len(file.targets) |-> file.targets[i][1]])

\* wTarg: the rows of the selected target
wTarg(hdu, ids) == [i \in 1..Len(hdu.rows) |-> hdu.rows[i].targ \in ids]

AnyTrue(w) == TRUE \in Range(w)

\* the rows of hdu named k, of the selected target
RowsOf(hdu, k, ids) == SelectSeq(hdu.rows, LAMBDA r : NameOf(r) = k /\ r.targ \in ids)

Raise(acc, what) == [acc EXCEPT !.st = "raise", !.err = what]

(***************************************************************************)
(* loadOI, lines 215-285: one OI_VIS2 extension                             *)
(* acc = [st, err, tabs, sta2, M]; P = [ids, wl, WL0, binning, ho]         *)
(***************************************************************************)
\* FLAG = FLAG | ~isfinite(data) | ~isfinite(error)
Flagged(t, d, e) ==
    Put(t, "FLAG", OrNonFinite(OrNonFinite(t.f["FLAG"], t.f[d]), t.f[e]))

\* column c of the coordinate tuple of the rows
UV(rows, c) == [i \in 1..Len(rows) |-> rows[i].uv[c]]

\* the names of the rows of an extension, in row order
Names(hdu) == [i \in 1..Len(hdu.rows) |-> NameOf(hdu.rows[i])]

\* _binOI on the field d of table t, with the errors e as weights
Binned(t, P, d, e) == binOI(P.wl, P.WL0, t.f[d], t.f["FLAG"], t.f[e])

\* the derived fields 'B/wl' and 'PA'
Derived(t) ==
    Put(Put(t, "B/wl", Hyp2(t.f["u/wl"], t.f["v/wl"])), "PA", Angle2(t.f["v/wl"], t.f["u/wl"]))

NewVIS2(rows, P) ==
    Flagged(Dict(<<"V2", "EV2", "u", "v", "MJD", "u/wl", "v/wl", "FLAG">>,
                 [V2 |-> Col(rows, "d"), EV2 |-> Col(rows, "e"),
                  u |-> UV(rows, 1), v |-> UV(rows, 2),
                  MJD |-> Col(rows, "mjd"), FLAG |-> Col(rows, "flag")] @@
                 ("u/wl" :> OverWL(UV(rows, 1), P.wl) @@
                  "v/wl" :> OverWL(UV(rows, 2), P.wl))),
            "V2", "EV2")

AppendVIS2(t, rows, P) ==
    Flagged([t EXCEPT !.f["V2"] = @ \o Col(rows, "d"),
                      !.f["EV2"] = @ \o Col(rows, "e"),
                      !.f["FLAG"] = @ \o Col(rows, "flag"),
                      !.f["u"] = @ \o UV(rows, 1), !.f["v"] = @ \o UV(rows, 2),
                      !.f["MJD"] = @ \o Col(rows, "mjd"),
                      !.f["u/wl"] = @ \o OverWL(UV(rows, 1), P.wl),
                      !.f["v/wl"] = @ \o OverWL(UV(rows, 2), P.wl)],
            "V2", "EV2")

\* lines 276-285: the rebinning
BinVIS2(t, P) ==
    IF P.binning = 0 THEN t
    ELSE [t EXCEPT !.f["V2"] = Binned(t, P, "V2", "EV2").res,
                   !.f["EV2"] = Binned(t, P, "EV2", "EV2").res,
                   !.f["FLAG"] = Binned(t, P, "V2", "EV2").flag]

\* lines 265-285: the derived fields, then the rebinning
FinishVIS2(t, P) == BinVIS2(Derived(t), P)

\* the rows of baseline k added to the tables of a
OneVIS2(a, k, rows, P) ==
    IF a.st # "ok" \/ rows = <<>> THEN a
    ELSE IF Has(a.tabs["OI_VIS2"], k)
    THEN IF ~CanAppend2(a.tabs["OI_VIS2"].f[k].f["V2"], Col(rows, "d"))
         THEN Raise(a, "ValueError")
         ELSE [a EXCEPT !.tabs["OI_VIS2"] =
                  Put(@, k, FinishVIS2(AppendVIS2(@.f[k], rows, P), P))]
    ELSE [a EXCEPT !.tabs["OI_VIS2"] = Put(@, k, FinishVIS2(NewVIS2(rows, P), P))]

LoadVIS2(acc, hdu, P) ==
    IF ~AnyTrue(wTarg(hdu, P.ids)) THEN acc
    ELSE Fold(LAMBDA a, k : OneVIS2(a, k, RowsOf(hdu, k, P.ids), P),
              [acc EXCEPT !.sta2 = Names(hdu)], SetIter(Names(hdu), P.ho))

(***************************************************************************)
(* loadOI, lines 289-376: one OI_VIS extension                              *)
(***************************************************************************)
NewVIS(rows, P) ==
    Dict(<<"|V|", "E|V|", "PHI", "EPHI", "MJD", "u", "v", "u/wl", "v/wl", "FLAG">>,
         [PHI |-> Col(rows, "d2"), EPHI |-> Col(rows, "e2"), MJD |-> Col(rows, "mjd"),
          u |-> UV(rows, 1), v |-> UV(rows, 2), FLAG |-> Col(rows, "flag")] @@
         ("|V|" :> Col(rows, "d") @@ "E|V|" :> Col(rows, "e") @@
          "u/wl" :> OverWL(UV(rows, 1), P.wl) @@ "v/wl" :> OverWL(UV(rows, 2), P.wl)))

\* lines 365-376: the rebinning
BinVIS(t, P) ==
    IF P.binning = 0 THEN t
    ELSE [t EXCEPT !.f["|V|"] = Binned(t, P, "|V|", "E|V|").res,
                   !.f["PHI"] = Binned(t, P, "PHI", "EPHI").res,
                   !.f["E|V|"] = Binned(t, P, "E|V|", "E|V|").res,
                   !.f["EPHI"] = Binned(t, P, "EPHI", "EPHI").res,
                   !.f["FLAG"] = Binned(t, P, "|V|", "E|V|").flag]

\* lines 339-376
FinishVIS(t, P) == BinVIS(Flagged(Derived(t), "|V|", "E|V|"), P)

\* lines 307-312: the accumulation reads the column 'VIS2AMP', which an OI_VIS
\* extension does not have (its amplitude column is 'VISAMP'): KeyError
OneVIS(a, k, rows, P) ==
    IF a.st # "ok" \/ rows = <<>> THEN a
    ELSE IF Has(a.tabs["OI_VIS"], k) THEN Raise(a, "KeyError")
    ELSE [a EXCEPT !.tabs["OI_VIS"] = Put(@, k, FinishVIS(NewVIS(rows, P), P))]

LoadVIS(acc, hdu, P) ==
    IF ~AnyTrue(wTarg(hdu, P.ids)) THEN acc
    ELSE Fold(LAMBDA a, k : OneVIS(a, k, RowsOf(hdu, k, P.ids), P),
              [acc EXCEPT !.sta2 = Names(hdu)], SetIter(Names(hdu), P.ho))

(***************************************************************************)
(* loadOI, lines 167-212: one OI_FLUX extension                             *)
(***************************************************************************)
\* lines 203-212: the rebinning, without weights
BinFLUX(t, P) ==
    IF P.binning = 0 THEN t
    ELSE [t EXCEPT !.f["FLUX"] = binOI(P.wl, P.WL0, t.f["FLUX"], t.f["FLAG"], <<>>).res,
                   !.f["EFLUX"] = binOI(P.wl, P.WL0, t.f["EFLUX"], t.f["FLAG"], <<>>).res,
                   !.f["FLAG"] = binOI(P.wl, P.WL0, t.f["FLUX"], t.f["FLAG"], <<>>).flag]

\* lines 180-212: the table of telescope k is built anew from this extension;
\* a telescope without a row of the target makes reshape(0, -1) raise
NewFLUX(rows, P) ==
    BinFLUX(Flagged(Dict(<<"FLUX", "EFLUX", "FLAG", "MJD">>,
                         [FLUX |-> Col(rows, "d"), EFLUX |-> Col(rows, "e"),
                          FLAG |-> Col(rows, "flag"), MJD |-> Col(rows, "mjd")]),
                    "FLUX", "EFLUX"), P)

OneFLUX(a, k, rows, P) ==
    IF a.st # "ok" THEN a
    ELSE IF rows = <<>> THEN Raise(a, "ValueError")
    ELSE [a EXCEPT !.tabs["OI_FLUX"] = Put(@, k, NewFLUX(rows, P))]

LoadFLUX(acc, hdu, P) ==
    IF ~AnyTrue(wTarg(hdu, P.ids)) THEN acc
    ELSE Fold(LAMBDA a, k : OneFLUX(a, k, RowsOf(hdu, k, P.ids), P),
              acc, SetIter(Names(hdu), P.ho))

(***************************************************************************)
(* loadOI, lines 405-534: one OI_T3 extension                               *)
(***************************************************************************)
Slice(k, a, b) == SubSeq(k, a + 1, b)   \* python k[a:b]

\* lines 423-458: the three legs of triangle k; sta2 the known baselines, M the
\* ledger of missing ones. [s, t, M]
LegFwdRev(fwd, rev, revInM, sta2, st) ==
    IF fwd \in sta2 \/ fwd \in Range(st.M)
    THEN [s |-> Append(st.s, 1), t |-> Append(st.t, fwd), M |-> st.M]
    ELSE IF rev \in sta2 \/ revInM \in Range(st.M)
    THEN [s |-> Append(st.s, -1), t |-> Append(st.t, rev), M |-> st.M]
    ELSE [s |-> Append(st.s, 1), t |-> Append(st.t, fwd), M |-> Append(st.M, fwd)]

\* the legs of the triangle of stations a, b, c
\* (line 428 tests k[:2*n], the forward name, against M, not the reverse one)
Legs(a, b, c, sta2, M) ==
    LegFwdRev(c \o a, a \o c, a \o c, sta2,
              LegFwdRev(b \o c, c \o b, c \o b, sta2,
                        LegFwdRev(a \o b, b \o a, a \o b, sta2,
                                  [s |-> <<>>, t |-> <<>>, M |-> M])))

T3Legs(k, n, sta2, M) ==
    Legs(Slice(k, 0, n), Slice(k, n, 2*n), Slice(k, 2*n, 3*n), sta2, M)

\* the squared lengths of the three sides, from the two coordinate pairs
Sides(u1, v1, u2, v2) ==
    [i \in 1..Len(u1) |-> <<u1[i]*u1[i] + v1[i]*v1[i], u2[i]*u2[i] + v2[i]*v2[i],
                           (u1[i]+u2[i])*(u1[i]+u2[i]) + (v1[i]+v2[i])*(v1[i]+v2[i])>>]

WithSides(t, B, P) ==
    Flagged(Put(Put(Put(Put(Put(t, "B1", [i \in 1..Len(B) |-> B[i][1]]),
                            "B2", [i \in 1..Len(B) |-> B[i][2]]),
                        "B3", [i \in 1..Len(B) |-> B[i][3]]),
                    "Bmax/wl", OverWL([i \in 1..Len(B) |->
                                          Max2(B[i][3], Max2(B[i][1], B[i][2]))], P.wl)),
                "Bavg/wl", OverWL(B, P.wl)),
            "T3AMP", "ET3AMP")

T3Derived(t, P) == WithSides(t, Sides(t.f["u1"], t.f["v1"], t.f["u2"], t.f["v2"]), P)

\* lines 508-534
BinT3(t, P) ==
    IF P.binning = 0 THEN t
    ELSE [t EXCEPT !.f["T3AMP"] = Binned(t, P, "T3AMP", "ET3AMP").res,
                   !.f["T3PHI"] = Binned(t, P, "T3PHI", "ET3PHI").res,
                   !.f["ET3AMP"] = Binned(t, P, "ET3AMP", "ET3AMP").res,
                   !.f["ET3PHI"] = Binned(t, P, "ET3PHI", "ET3PHI").res,
                   !.f["FLAG"] = Binned(t, P, "T3AMP", "ET3AMP").flag]

NewT3(rows, s, t, P) ==
    Dict(<<"T3AMP", "ET3AMP", "T3PHI", "ET3PHI", "MJD", "u1", "v1", "u2", "v2",
           "formula", "FLAG">>,
         [T3AMP |-> Col(rows, "d"), ET3AMP |-> Col(rows, "e"),
          T3PHI |-> Col(rows, "d2"), ET3PHI |-> Col(rows, "e2"),
          MJD |-> Col(rows, "mjd"),
          u1 |-> UV(rows, 1), v1 |-> UV(rows, 2), u2 |-> UV(rows, 3), v2 |-> UV(rows, 4),
          formula |-> <<s, t>>, FLAG |-> Col(rows, "flag")])

AppendT3(t, rows) ==
    Flagged([t EXCEPT !.f["T3AMP"] = @ \o Col(rows, "d"),
                      !.f["ET3AMP"] = @ \o Col(rows, "e"),
                      !.f["T3PHI"] = @ \o Col(rows, "d2"),
                      !.f["ET3PHI"] = @ \o Col(rows, "e2"),
                      !.f["FLAG"] = @ \o Col(rows, "flag"),
                      !.f["u1"] = @ \o UV(rows, 1), !.f["u2"] = @ \o UV(rows, 3),
                      !.f["v1"] = @ \o UV(rows, 2), !.f["v2"] = @ \o UV(rows, 4),
                      !.f["MJD"] = @ \o Col(rows, "mjd")],
            "T3AMP", "ET3AMP")

\* the rows of triangle k added to the tables of a, legs being its three legs
OneT3(a, k, rows, legs, P) ==
    IF a.st # "ok" THEN a
    ELSE IF rows = <<>> THEN [a EXCEPT !.M = legs.M]
    ELSE IF Has(a.tabs["OI_T3"], k)
    THEN IF ~CanAppend2(a.tabs["OI_T3"].f[k].f["T3AMP"], Col(rows, "d"))
         THEN Raise([a EXCEPT !.M = legs.M], "ValueError")
         ELSE [a EXCEPT !.M = legs.M,
                        !.tabs["OI_T3"] =
                           Put(@, k, BinT3(T3Derived(AppendT3(@.f[k], rows), P), P))]
    ELSE [a EXCEPT !.M = legs.M,
                   !.tabs["OI_T3"] =
                      Put(@, k, BinT3(T3Derived(NewT3(rows, legs.s, legs.t, P), P), P))]

LoadT3(acc, hdu, P) ==
    IF ~AnyTrue(wTarg(hdu, P.ids)) THEN acc
    ELSE Fold(LAMBDA a, k : OneT3(a, k, RowsOf(hdu, k, P.ids),
                                  T3Legs(k, Len(Names(hdu)[1]) \div 3, Range(a.sta2), a.M), P),
              acc, SetIter(Names(hdu), P.ho))

(***************************************************************************)
(* loadOI, lines 535-720: missing baselines and epoch alignment            *)
(***************************************************************************)
\* the alignment tolerance 1e-4 day, in units of 0.5e-4 day
Tol == 2

\* lines 556-583: the zero-signal, fully flagged table of missing baseline m,
\* from the triangle table T whose formula holds m at index idx (0, 1 or 2)
FabCoordV(T, idx) ==
    CASE idx = 0 -> T.f["v1"]
      [] idx = 1 -> T.f["v2"]
      [] OTHER   -> [i \in 1..Len(T.f["MJD"]) |-> -T.f["v2"][i] - T.f["v2"][i]]   \* line 564

FabCoordU(T, idx) ==
    CASE idx = 0 -> T.f["u1"]
      [] idx = 1 -> T.f["u2"]
      [] OTHER   -> [i \in 1..Len(T.f["MJD"]) |-> -T.f["u1"][i] - T.f["u2"][i]]

\* mutant: the errors are zeros as the signal is (np.zeros for np.ones)
FabDataZeros(key, n, nw) ==
    IF key = "OI_VIS"
    THEN Dict(<<"|V|", "E|V|", "PHI", "EPHI">>,
              ("|V|" :> Rep(n, Rep(nw, 0)) @@ "E|V|" :> Rep(n, Rep(nw, 0)) @@
               "PHI" :> Rep(n, Rep(nw, 0)) @@ "EPHI" :> Rep(n, Rep(nw, 0))))
    ELSE Dict(<<"V2", "EV2">>, ("V2" :> Rep(n, Rep(nw, 0)) @@ "EV2" :> Rep(n, Rep(nw, 0))))

\* the observables of a fabricated table: n rows of zero signal, unit error
FabData(key, n, nw) ==
    IF key = "OI_VIS"
    THEN Dict(<<"|V|", "E|V|", "PHI", "EPHI">>,
              ("|V|" :> Rep(n, Rep(nw, 0)) @@ "E|V|" :> Rep(n, Rep(nw, 1)) @@
               "PHI" :> Rep(n, Rep(nw, 0)) @@ "EPHI" :> Rep(n, Rep(nw, 1))))
    ELSE Dict(<<"V2", "EV2">>, ("V2" :> Rep(n, Rep(nw, 0)) @@ "EV2" :> Rep(n, Rep(nw, 1))))

\* the coordinates u, v and what follows from them, the flags and the epochs
FabCoords(t0, u, v, mjd, P) ==
    Put(Put(Put(Put(Put(Put(Put(t0, "u", u), "v", v),
                            "u/wl", OverWL(u, P.wl)),
                        "v/wl", OverWL(v, P.wl)),
                    "B/wl", Hyp2(OverWL(u, P.wl), OverWL(v, P.wl))),
                "FLAG", Rep(Len(mjd), Rep(Len(P.wl), TRUE))),
            "MJD", mjd)

FabTable(T, idx, key, P) ==
    FabCoords(FabData(key, Len(T.f["MJD"]), Len(P.wl)),
              FabCoordU(T, idx), FabCoordV(T, idx), T.f["MJD"], P)

\* lines 553-588: the missing baselines of M that triangle table T refers to are
\* put into res[key] (res[key][m] = A[m]) and struck off M
AddMissing(d, M, T, key, P) ==
    [d |-> Fold(LAMBDA x, m : Put(x, m, FabTable(T, IndexOf(T.f["formula"][2], m) - 1, key, P)),
                d, SelectSeq(M, LAMBDA m : m \in Range(T.f["formula"][2]))),
     M |-> SelectSeq(M, LAMBDA m : ~(m \in Range(T.f["formula"][2])))]

\* lines 598-635, 639-675, 679-718: the placeholder row appended to baseline
\* table bt for row i of triangle table T, leg j (0, 1, 2), sign sg
PlaceU(T, i, j, sg) ==
    CASE j = 0 -> sg * T.f["u1"][i]
      [] j = 1 -> sg * T.f["u2"][i]
      [] OTHER -> -sg * T.f["u1"][i] - sg * T.f["u2"][i]

PlaceV(T, i, j, sg) ==
    CASE j = 0 -> sg * T.f["v1"][i]
      [] j = 1 -> sg * T.f["v2"][i]
      [] OTHER -> -sg * T.f["v1"][i] - sg * T.f["v2"][i]

PlaceUwl(T, i, j, sg) ==
    CASE j = 0 -> sg * T.f["u1"][i]
      [] j = 1 -> sg * T.f["u2"][i]
      [] OTHER -> sg * (-T.f["u1"][i] - T.f["u2"][i])

PlaceVwl(T, i, j, sg) ==
    CASE j = 0 -> sg * T.f["v1"][i]
      [] j = 1 -> sg * T.f["v2"][i]
      [] OTHER -> -T.f["v1"][i] - T.f["v2"][i]                  \* line 694: no sign

PlaceB2(T, i, j) ==
    CASE j = 0 -> T.f["u1"][i]*T.f["u1"][i] + T.f["v1"][i]*T.f["v1"][i]
      [] j = 1 -> T.f["u2"][i]*T.f["u2"][i] + T.f["v2"][i]*T.f["v2"][i]
      [] OTHER -> (T.f["u1"][i]+T.f["u2"][i])*(T.f["u1"][i]+T.f["u2"][i])
                  + (T.f["v1"][i]+T.f["v2"][i])*(T.f["v1"][i]+T.f["v2"][i])

\* the epoch and the coordinates of the placeholder row
PlaceCoords(bt, T, i, j, sg, nw) ==
    [bt EXCEPT !.f["MJD"] = Append(@, T.f["MJD"][i]),
               !.f["u"] = Append(@, PlaceU(T, i, j, sg)),
               !.f["v"] = Append(@, PlaceV(T, i, j, sg)),
               !.f["u/wl"] = Append(@, Rep(nw, PlaceUwl(T, i, j, sg))),
               !.f["v/wl"] = Append(@, Rep(nw, PlaceVwl(T, i, j, sg)))]

\* 'PA' is computed anew from all the rows (a table without it gains it)
PlacePA(t) == Put(t, "PA", Angle2(t.f["v/wl"], t.f["u/wl"]))

\* the projected length, the flags and the zero signal
PlaceData(t, b2, key, nw) ==
    IF key = "OI_VIS"
    THEN [t EXCEPT !.f["B/wl"] = Append(@, Rep(nw, b2)),
                   !.f["FLAG"] = Append(@, Rep(nw, TRUE)),
                   !.f["|V|"] = Append(@, Rep(nw, 0)),
                   !.f["E|V|"] = Append(@, Rep(nw, 1)),
                   !.f["PHI"] = Append(@, Rep(nw, 0)),
                   !.f["EPHI"] = Append(@, Rep(nw, 1))]
    ELSE [t EXCEPT !.f["B/wl"] = Append(@, Rep(nw, b2)),
                   !.f["FLAG"] = Append(@, Rep(nw, TRUE)),
                   !.f["V2"] = Append(@, Rep(nw, 0)),
                   !.f["EV2"] = Append(@, Rep(nw, 1))]

Placeholder(bt, T, i, j, sg, key, P) ==
    PlaceData(PlacePA(PlaceCoords(bt, T, i, j, sg, Len(P.wl))), PlaceB2(T, i, j), key, Len(P.wl))

\* mutant: an epoch at the tolerance counts as found (<= for <)
NearestInLoose(diff) == IF MinSeq(diff) <= Tol THEN ArgMin(diff) - 1 ELSE -1

\* lines 595-598: the row of baseline table bt for epoch mjd, or "none"
NearestIn(diff) == IF MinSeq(diff) < Tol THEN ArgMin(diff) - 1 ELSE -1

NearestRow(mjds, mjd) == NearestIn([i \in 1..Len(mjds) |-> Abs(mjds[i] - mjd)])

\* leg j of row i of triangle T, whose baseline table is bt and nearest row hit
AlignHit(st, T, i, j, key, P, name, hit) ==
    IF hit >= 0 THEN [st EXCEPT !.w[j+1] = Append(@, hit)]
    ELSE [st EXCEPT !.w[j+1] = Append(@, Len(st.d.f[name].f["MJD"])),
                    !.d = Put(@, name, Placeholder(@.f[name], T, i, j,
                                                   T.f["formula"][1][j+1], key, P))]

\* one leg of one triangle row: st = [ok, d, w], w the three index lists
AlignLeg(st, T, i, j, key, P) ==
    IF ~st.ok THEN st
    ELSE IF ~Has(st.d, T.f["formula"][2][j+1])
    THEN [st EXCEPT !.ok = FALSE]
    ELSE IF st.d.f[T.f["formula"][2][j+1]].f["MJD"] = <<>>
    THEN [st EXCEPT !.ok = FALSE]
    ELSE AlignHit(st, T, i, j, key, P, T.f["formula"][2][j+1],
                  NearestRow(st.d.f[T.f["formula"][2][j+1]].f["MJD"], T.f["MJD"][i]))

\* lines 593-720 for one triangle table T: [ok, d, w]
AlignTriangle(d, T, key, P) ==
    Fold(LAMBDA st, x : AlignLeg(st, T, (x-1) \div 3 + 1, (x-1) % 3, key, P),
         [ok |-> TRUE, d |-> d, w |-> <<<<>>, <<>>, <<>>>>],
         [x \in 1..(3 * Len(T.f["MJD"])) |-> x])

\* triangle k of a once its missing baselines are added (add) and its legs
\* aligned (al)
Aligned(a, k, key, add, al) ==
    IF ~al.ok THEN Raise(a, "KeyError")
    ELSE [a EXCEPT !.M = add.M,
                   !.tabs[key] = al.d,
                   !.tabs["OI_T3"] =
                       Put(@, k, Put(@.f[k], "formula",
                                     <<@.f[k].f["formula"][1], @.f[k].f["formula"][2],
                                       al.w[1], al.w[2], al.w[3]>>))]

AlignAdded(a, k, key, P, add) ==
    Aligned(a, k, key, add, AlignTriangle(add.d, a.tabs["OI_T3"].f[k], key, P))

OneTriangle(a, k, key, P) ==
    IF a.st # "ok" THEN a
    ELSE AlignAdded(a, k, key, P, AddMissing(a.tabs[key], a.M, a.tabs["OI_T3"].f[k], key, P))

\* lines 549-720: every triangle in turn. acc.tabs[key] and the formulas change
ReconcileT3(acc, key, P) ==
    Fold(LAMBDA a, k : OneTriangle(a, k, key, P), acc, acc.tabs["OI_T3"].ks)

(***************************************************************************)
(* loadOI, lines 725-770: name lists, tellurics, configurations per MJD    *)
(***************************************************************************)
Alphabet == <<"0", "1", "A", "B", "C", "D", "E">>

RECURSIVE LeName(_, _)
LeName(a, b) == IF a = <<>> THEN TRUE
                ELSE IF b = <<>> THEN FALSE
                ELSE IF a[1] = b[1] THEN LeName(Tail(a), Tail(b))
                ELSE IndexOf(Alphabet, a[1]) < IndexOf(Alphabet, b[1])

\* the first name of S in sorting order
First(S) == CHOOSE x \in S : \A y \in S : LeName(x, y)

\* sorted(S) for a set of names
RECURSIVE Sorted(_)
Sorted(S) == IF S = {} THEN <<>> ELSE <<First(S)>> \o Sorted(S \ {First(S)})

\* lines 729-732: the telescopes are the halves of the baseline names
Halves(ks) == UNION {{Slice(ks[i], 0, Len(ks[i]) \div 2),
                      Slice(ks[i], Len(ks[i]) \div 2, Len(ks[i]))} : i \in 1..Len(ks)}

\* FLUX /= TELLURICS; the transmission is counted in tenths
TellDiv(x, t) == IF x = NaN \/ t = NaN \/ t = 0 THEN NaN ELSE (x * 10) \div t

\* lines 747-752
Telluric(t, tell) ==
    [Put(t, "RFLUX", t.f["FLUX"]) EXCEPT !.f["FLUX"] =
        [i \in 1..Len(@) |-> [j \in 1..Len(@[i]) |->
            TellDiv(@[i][j], IF Len(tell) = 1 THEN tell[1] ELSE tell[j])]]]

\* the pairs <<mjd, name>> of the tables of tabs, in iteration order
MJDPairs(tabs) ==
    Flatten([c \in 1..Len(tabs.ks) |->
        Flatten([x \in 1..Len(tabs.f[tabs.ks[c]].ks) |->
            [i \in 1..Len(tabs.f[tabs.ks[c]].f[tabs.f[tabs.ks[c]].ks[x]].f["MJD"]) |->
                <<tabs.f[tabs.ks[c]].f[tabs.f[tabs.ks[c]].ks[x]].f["MJD"][i],
                  tabs.f[tabs.ks[c]].ks[x]>>]])])

\* name k seen at epoch mjd
Seen(d, mjd, k) ==
    IF ~Has(d, mjd) THEN Put(d, mjd, <<k>>)
    ELSE IF k \in Range(d.f[mjd]) THEN d
    ELSE Put(d, mjd, Append(d.f[mjd], k))

\* lines 761-770: for every table of every category, the names seen at each MJD
ConfPerMJD(tabs) == Fold(LAMBDA d, x : Seen(d, x[1], x[2]), EmptyD, MJDPairs(tabs))

(***************************************************************************)
(* loadOI, the whole call. Result [st, ds, err, opened, closed]:           *)
(*   st = "ok": ds = <<dataset>>; st = "list": ds = the per-instrument     *)
(*   datasets; st = "raise": an exception err left the call.               *)
(*   opened/closed count the fits.open and h.close() calls made.           *)
(* Arguments: insname, targname (None if not given), binning (0 = None),   *)
(* tellurics (<<>> = None), ho (the hash order of the process).            *)
(***************************************************************************)
Instruments(file) == [i \in 1..Len(file.wave) |-> file.wave[i].insname]

\* lines 125-139: the wavelength table of insname (the last one wins)
RawWL(file, insname) ==
    file.wave[CHOOSE i \in 1..Len(file.wave) :
                 /\ file.wave[i].insname = insname
                 /\ \A j \in 1..Len(file.wave) : file.wave[j].insname = insname => j <= i].wl

BinnedWL(WL0, binning) ==
    IF binning = 0 THEN WL0
    ELSE Linspace(MinSeq(WL0), -MinSeq([i \in 1..Len(WL0) |-> -WL0[i]]), Len(WL0) \div binning)

\* lines 163-381: the flux, squared visibility and visibility extensions
LoadHDU(a, h, insname, P) ==
    IF a.st # "ok" \/ h.insname # insname THEN a
    ELSE CASE h.ext = "OI_FLUX" -> LoadFLUX(a, h, P)
           [] h.ext = "OI_VIS2" -> LoadVIS2(a, h, P)
           [] h.ext = "OI_VIS"  -> LoadVIS(a, h, P)
           [] OTHER             -> a

LoadVisHDUs(file, insname, P) ==
    Fold(LAMBDA a, h : LoadHDU(a, h, insname, P),
         [st |-> "ok", err |-> None, sta2 |-> <<None>>, M |-> <<>>,
          tabs |-> [c \in {"OI_VIS2", "OI_VIS", "OI_T3", "OI_FLUX"} |-> EmptyD]],
         file.hdus)

\* one closure extension
LoadT3HDU(a, h, insname, P) ==
    IF a.st # "ok" \/ h.insname # insname \/ h.ext # "OI_T3" THEN a ELSE LoadT3(a, h, P)

\* lines 394-534: sta2 = list(set(sta2)) (NameError when no visibility extension
\* was read), then the closure extensions
LoadT3HDUs(file, insname, acc, P) ==
    IF acc.st # "ok" THEN acc
    ELSE IF acc.sta2 = <<None>> THEN Raise(acc, "NameError")
    ELSE Fold(LAMBDA a, h : LoadT3HDU(a, h, insname, P), acc, file.hdus)

\* lines 535-544: the category the closures are resolved against
KeyOf(acc) == IF acc.tabs["OI_VIS"] = EmptyD THEN "OI_VIS2" ELSE "OI_VIS"

\* the categories that hold a table, in the order the code fills them, the
\* fluxes corrected for the tellurics (lines 747-752)
Tables(acc, tell) ==
    Dict(SelectSeq(<<"OI_VIS2", "OI_VIS", "OI_T3", "OI_FLUX">>, LAMBDA c : acc.tabs[c] # EmptyD),
         [c \in {"OI_VIS2", "OI_VIS", "OI_T3", "OI_FLUX"} |->
             IF c = "OI_FLUX"
             THEN [ks |-> acc.tabs[c].ks,
                   f  |-> [k \in Range(acc.tabs[c].ks) |-> Telluric(acc.tabs[c].f[k], tell)]]
             ELSE acc.tabs[c]])

\* lines 725-798, acc being the tables after the closures are resolved and
\* tell the telluric transmission (lines 739-745)
Dataset(file, insname, targname, acc, key, tell, P) ==
    [insname |-> insname, filename |-> <<file.fid>>, targname |-> targname,
     WL |-> P.wl, TELLURICS |-> tell, tabs |-> Tables(acc, tell),
     telescopes |-> IF acc.tabs["OI_FLUX"] # EmptyD
                    THEN Sorted(Range(acc.tabs["OI_FLUX"].ks))
                    ELSE Sorted(Halves(acc.tabs[key].ks)),
     baselines |-> Sorted(Range(acc.tabs[key].ks)),
     triangles |-> Sorted(Range(acc.tabs["OI_T3"].ks)),
     conf |-> ConfPerMJD(Tables(acc, tell)), hasfit |-> FALSE, fit |-> <<>>, shared |-> {}]

\* lines 739-745
Tellurics(file, tellurics, P) ==
    IF tellurics = <<>>
    THEN IF Len(file.tell) = Len(P.wl) /\ file.tell # <<>> THEN file.tell
         ELSE Rep(Len(P.wl), 10)
    ELSE IF P.binning # 0 /\ Len(tellurics) = Len(P.WL0)
    THEN binVec(P.wl, P.WL0, tellurics, <<>>)
    ELSE tellurics

\* lines 725-798: the dataset, or the exception that ends the call
Finish(file, insname, targname, acc, key, tell, P) ==
    IF acc.st # "ok" THEN [st |-> "raise", ds |-> <<>>, err |-> acc.err]
    ELSE IF acc.tabs[key] = EmptyD THEN [st |-> "raise", ds |-> <<>>, err |-> "KeyError"]
    ELSE IF acc.tabs["OI_FLUX"] # EmptyD /\ Len(tell) # Len(P.wl) /\ Len(tell) # 1
    THEN [st |-> "raise", ds |-> <<>>, err |-> "ValueError"]
    ELSE [st |-> "ok", ds |-> <<Dataset(file, insname, targname, acc, key, tell, P)>>,
          err |-> None]

\* lines 535-798
Assemble(file, insname, targname, acc0, tellurics, P) ==
    Finish(file, insname, targname,
           IF acc0.st = "ok" /\ acc0.tabs["OI_T3"] # EmptyD
           THEN ReconcileT3(acc0, KeyOf(acc0), P) ELSE acc0,
           KeyOf(acc0), Tellurics(file, tellurics, P), P)

\* what a call that opened the file once and never closed it hands back
Opened(body) ==
    [st |-> body.st, ds |-> body.ds, err |-> body.err, opened |-> 1, closed |-> 0]

\* lines 80-84: the handle is closed, then one call per instrument (sub), up
\* to the first that raises
PerInstrument(sub) ==
    LET bad  == {i \in 1..Len(sub) : sub[i].st = "raise"}
        nsub == IF bad = {} THEN Len(sub) ELSE CHOOSE i \in bad : \A j \in bad : i <= j
    IN [st |-> IF bad = {} THEN "list" ELSE "raise",
        ds |-> IF bad = {} THEN Flatten([i \in 1..Len(sub) |-> sub[i].ds]) ELSE <<>>,
        err |-> IF bad = {} THEN None ELSE sub[nsub].err,
        opened |-> 1 + SumSeq([i \in 1..nsub |-> sub[i].opened]),
        closed |-> 1 + SumSeq([i \in 1..nsub |-> sub[i].closed])]

\* lines 125-798 for the instrument inm and the target targ
ReadAll(file, inm, targ, tellurics, P) ==
    Opened(Assemble(file, inm, targ,
                    LoadT3HDUs(file, inm, LoadVisHDUs(file, inm, P), P), tellurics, P))

Params(file, inm, targ, binning, ho) ==
    [ids |-> TargetIds(file, targ), wl |-> BinnedWL(RawWL(file, inm), binning),
     WL0 |-> RawWL(file, inm), binning |-> binning, ho |-> ho]

\* lines 71-72 and 76-78
TargOf(file, targname) ==
    IF targname = None /\ Len(TargetNames(file)) = 1 THEN TargetNames(file)[1] ELSE targname

InsOf(file, insname) ==
    IF insname = None /\ Len(Instruments(file)) = 1 THEN Instruments(file)[1] ELSE insname

\* lines 49-798, one file
RECURSIVE loadOI(_, _, _, _, _, _)
loadOI(file, insname, targname, binning, tellurics, ho) ==
    IF ~(TargOf(file, targname) \in Range(TargetNames(file)))
    THEN Opened([st |-> "raise", ds |-> <<>>, err |-> "AssertionError"])
    ELSE IF InsOf(file, insname) = None
    THEN PerInstrument(Eager([i \in 1..Len(Instruments(file)) |->
                                 loadOI(file, Instruments(file)[i], None, 0, <<>>, ho)]))
    ELSE IF ~(InsOf(file, insname) \in Range(Instruments(file)))
    THEN Opened([st |-> "raise", ds |-> <<>>, err |-> "AssertionError"])
    ELSE ReadAll(file, InsOf(file, insname), TargOf(file, targname), tellurics,
                 Params(file, InsOf(file, insname), TargOf(file, targname), binning, ho))

\* lines 37-47: the calls one[i] of the files of the list, up to the first that
\* raises: an exception of one call leaves the loop
Batch(one) ==
    LET bad == {i \in 1..Len(one) : one[i].st = "raise"}
        n   == IF bad = {} THEN Len(one) ELSE CHOOSE i \in bad : \A j \in bad : i <= j
    IN [st |-> IF bad = {} THEN "list" ELSE "raise",
        ds |-> IF bad = {} THEN Flatten([i \in 1..Len(one) |-> one[i].ds]) ELSE <<>>,
        err |-> IF bad = {} THEN None ELSE one[n].err,
        opened |-> SumSeq([i \in 1..n |-> one[i].opened]),
        closed |-> SumSeq([i \in 1..n |-> one[i].closed])]

loadOIlist(files, insname, targname, binning, tellurics, ho) ==
    Batch(Eager([i \in 1..Len(files) |->
                    loadOI(files[i], insname, targname, binning, tellurics, ho)]))

(***************************************************************************)
(* mergeOI, lines 871-998: grouping, copies, filters and concatenation     *)
(***************************************************************************)
\* str(oi['WL']): numpy prints 8 decimals of a value in um, that is the value
\* rounded to 10 units of 1e-9 um
StrWL(WL) == [i \in 1..Len(WL) |-> (WL[i] + 5) \div 10]

\* line 872
Setup(oi) == <<oi.insname, StrWL(oi.WL)>>

\* lines 889-895 and 950-956: the fields of one table, filtered in key order;
\* [t, fit]: the table and the 'fit' dict as the calls leave them
FilterField(a, k) ==
    IF StripE(k) # None /\ Has(a.t, StripE(k))
    THEN [a EXCEPT !.t = Put(a.t, k, filtErr(StripE(k), a.t, a.fit))]
    ELSE IF k = "FLAG"
    THEN [t |-> Put(a.t, k, filtFlag(a.t, a.fit)), fit |-> filtFlagFilt(a.t, a.fit)]
    ELSE a

FilterTable(tbl, fit) == Fold(FilterField, [t |-> tbl, fit |-> fit], tbl.ks)

\* the pairs <<category, name>> of the tables of tabs, in iteration order
Cells(tabs) ==
    Flatten([c \in 1..Len(tabs.ks) |->
        [x \in 1..Len(tabs.f[tabs.ks[c]].ks) |-> <<tabs.ks[c], tabs.f[tabs.ks[c]].ks[x]>>]])

\* table k of category l of d replaced by its filtered version r
Filtered(d, l, k, r) == [d EXCEPT !.tabs.f[l].f[k] = r.t, !.fit = r.fit]

FilterCell(d, x) == Filtered(d, x[1], x[2], FilterTable(d.tabs.f[x[1]].f[x[2]], d.fit))

\* lines 887-895: every table of every category of the copy
FilterInPlace(ds) == IF ds.hasfit THEN Fold(FilterCell, ds, Cells(ds.tabs)) ELSE ds

\* lines 961-973
Ext1(l) == CASE l = "OI_FLUX" -> <<"MJD">>
             [] l = "OI_T3"   -> <<"u1", "v1", "u2", "v2", "MJD", "B1", "B2", "B3">>
             [] OTHER         -> <<"u", "v", "MJD">>

Ext2(l) == CASE l = "OI_FLUX" -> <<"FLUX", "EFLUX", "FLAG", "RFLUX">>
             [] l = "OI_VIS2" -> <<"V2", "EV2", "FLAG", "u/wl", "v/wl", "B/wl", "PA">>
             [] l = "OI_VIS"  -> <<"|V|", "E|V|", "PHI", "EPHI", "FLAG", "u/wl", "v/wl",
                                   "B/wl", "PA">>
             [] OTHER         -> <<"T3AMP", "ET3AMP", "T3PHI", "ET3PHI", "FLAG", "Bmax/wl",
                                   "Bavg/wl">>

\* lines 976-993: the rows of table o (of input oi) appended to table r;
\* [st, t, fit]: fit is oi['fit'] as the _filtFlag calls leave it
ConcatTmp(o, t, filt, fit) ==
    IF filt /\ StripE(t) # None /\ Has(o, StripE(t)) THEN filtErr(StripE(t), o, fit)
    ELSE IF filt /\ t = "FLAG" THEN filtFlag(o, fit)
    ELSE o.f[t]

\* mutant: the rows of the input are put in front of those of the merged table
ConcatFieldFront(a, o, t, two, hasfit) ==
    IF a.st # "ok" THEN a
    ELSE IF ~Has(a.t, t) \/ ~Has(o, t) THEN [a EXCEPT !.st = "KeyError"]
    ELSE IF two /\ ~CanAppend2(a.t.f[t], o.f[t]) THEN [a EXCEPT !.st = "ValueError"]
    ELSE [st |-> "ok",
          t |-> Put(a.t, t, ConcatTmp(o, t, two /\ hasfit, a.fit) \o a.t.f[t]),
          fit |-> IF two /\ hasfit /\ t = "FLAG" THEN filtFlagFilt(o, a.fit) ELSE a.fit]

\* field t; two says that it is of the second list, whose rows are filtered
ConcatField(a, o, t, two, hasfit) ==
    IF a.st # "ok" THEN a
    ELSE IF ~Has(a.t, t) \/ ~Has(o, t) THEN [a EXCEPT !.st = "KeyError"]
    ELSE IF two /\ ~CanAppend2(a.t.f[t], o.f[t]) THEN [a EXCEPT !.st = "ValueError"]
    ELSE [st |-> "ok",
          t |-> Put(a.t, t, a.t.f[t] \o ConcatTmp(o, t, two /\ hasfit, a.fit)),
          fit |-> IF two /\ hasfit /\ t = "FLAG" THEN filtFlagFilt(o, a.fit) ELSE a.fit]

ConcatFields(l) ==
    [i \in 1..Len(Ext1(l)) |-> <<Ext1(l)[i], FALSE>>] \o
    [i \in 1..Len(Ext2(l)) |-> <<Ext2(l)[i], TRUE>>]

Concat(l, r, o, hasfit, fit) ==
    Fold(LAMBDA a, x : ConcatField(a, o, x[1], x[2], hasfit),
         [st |-> "ok", t |-> r, fit |-> fit], ConcatFields(l))

\* lines 941-946
ListOf(l) == CASE l = "OI_FLUX" -> "telescopes"
               [] l = "OI_T3"   -> "triangles"
               [] OTHER         -> "baselines"

\* lines 923-930: the index of input j merged into that of r. A list that r
\* did not have is taken over as the same object (r.shared records the pair
\* <<input, mjd>>), so a later append reaches the input that owns the list.
\* [r, ins]: the merged dataset and the inputs as the loop leaves them
ConfNew(old, add) == old \o SelectSeq(add, LAMBDA k : ~(k \in Range(old)))

\* line 930: the list of r for mjd becomes new, and so does the list of every
\* input that shares it
ConfAppend(a, mjd, new) ==
    [r |-> [a.r EXCEPT !.conf = Put(@, mjd, new)],
     ins |-> [x \in 1..Len(a.ins) |->
                 IF <<x, mjd>> \in a.r.shared
                 THEN [a.ins[x] EXCEPT !.conf = Put(@, mjd, new)]
                 ELSE a.ins[x]]]

ConfOne(a, j, c, mjd) ==
    IF ~Has(a.r.conf, mjd)
    THEN [a EXCEPT !.r.conf = Put(@, mjd, c.f[mjd]), !.r.shared = @ \cup {<<j, mjd>>}]
    ELSE ConfAppend(a, mjd, ConfNew(a.r.conf.f[mjd], c.f[mjd]))

ConfMerge(r, j, ins) ==
    Fold(LAMBDA a, mjd : ConfOne(a, j, ins[j].conf, mjd), [r |-> r, ins |-> ins],
         ins[j].conf.ks)

\* lines 935-956: a name the merged dataset did not have; new is the table of
\* the input o after the filters of the merged dataset's 'fit'
NewName(a, l, k, o, new) ==
    [a EXCEPT !.r.tabs.f[l] = Put(@, k, IF a.r.hasfit THEN new.t ELSE o.tabs.f[l].f[k]),
              !.r.fit = IF a.r.hasfit THEN new.fit ELSE @,
              !.r[ListOf(l)] = Append(@, k)]

\* mutant: the concatenation is dropped, the merged table stays as it was
SameNameKept(a, l, k, j, cat) == a

\* lines 961-993: a name both have; cat is the concatenation
SameName(a, l, k, j, cat) ==
    IF cat.st # "ok" THEN [a EXCEPT !.st = cat.st]
    ELSE [a EXCEPT !.r.tabs.f[l] = Put(@, k, cat.t), !.ins[j].fit = cat.fit]

DataOne(a, l, j, k) ==
    IF a.st # "ok" THEN a
    ELSE IF ~Has(a.r.tabs.f[l], k)
    THEN NewName(a, l, k, a.ins[j], FilterTable(a.ins[j].tabs.f[l].f[k], a.r.fit))
    ELSE SameName(a, l, k, j,
                  Concat(l, a.r.tabs.f[l].f[k], a.ins[j].tabs.f[l].f[k],
                         a.ins[j].hasfit, a.ins[j].fit))

\* lines 935-993: the tables of category l of input j merged into r
DataMerge(r, l, j, ins) ==
    Fold(LAMBDA a, k : DataOne(a, l, j, k), [st |-> "ok", r |-> r, ins |-> ins],
         ins[j].tabs.f[l].ks)

\* lines 910-913: a category the merged dataset did not have is taken over
CatNew(cm) == [st |-> "ok", r |-> cm.r, ins |-> cm.ins]

CatOld(cm, l, j) == DataMerge(cm.r, l, j, cm.ins)

MergeCat(a, j, l) ==
    IF a.st # "ok" THEN a
    ELSE IF ~Has(a.r.tabs, l)
    THEN CatNew(ConfMerge([a.r EXCEPT !.tabs = Put(@, l, a.ins[j].tabs.f[l])], j, a.ins))
    ELSE CatOld(ConfMerge(a.r, j, a.ins), l, j)

\* lines 903-993: input j merged into the dataset r that holds its setup
MergeInto(r, j, ins) ==
    Fold(LAMBDA a, l : MergeCat(a, j, l),
         [st |-> "ok", r |-> [r EXCEPT !.filename = @ \o ins[j].filename], ins |-> ins],
         ins[j].tabs.ks)

\* the merged dataset i0 replaced by the outcome m of merging an input into it
MergedInto(a, i0, m) ==
    [st |-> m.st, res |-> [a.res EXCEPT ![i0] = m.r], merged |-> a.merged, ins |-> m.ins]

\* lines 876-993 for input j of setup su
MergeOne(a, j, su) ==
    IF a.st # "ok" THEN a
    ELSE IF ~(su \in Range(a.merged))
    THEN [a EXCEPT !.merged = Append(@, su),
                   !.res = Append(@, FilterInPlace([a.ins[j] EXCEPT !.shared = {}]))]
    ELSE MergedInto(a, IndexOf(a.merged, su),
                    MergeInto(a.res[IndexOf(a.merged, su)], j, a.ins))

\* lines 876-993: the loop over the inputs. [st, res, merged, ins]
MergeLoop(OIin) ==
    Fold(LAMBDA a, j : MergeOne(a, j, Setup(OIin[j])),
         [st |-> "ok", res |-> <<>>, merged |-> <<>>, ins |-> OIin],
         [j \in 1..Len(OIin) |-> j])

(***************************************************************************)
(* mergeOI, lines 995-1078: list clean-up and VIS/VIS2 reconciliation      *)
(***************************************************************************)
\* 1+0*x
OnePlus0(x) == IF x = NaN THEN NaN ELSE 1

\* the angle 1 rad that 1+0*x puts into a 'PA' column
UnitOf(x, v) == IF x = "PA" THEN <<OnePlus0(v)>> ELSE OnePlus0(v)

AllTrue(F) == Map2(LAMBDA b : TRUE, F)

VisObs == <<"|V|", "E|V|", "PHI", "EPHI">>

Vis2Obs == <<"V2", "EV2">>

MirrorFields == <<"MJD", "u", "v", "u/wl", "v/wl", "B/wl", "PA", "FLAG">>

MirrorCopy(src) ==
    Dict(MirrorFields, [x \in Range(MirrorFields) |->
                           IF x = "FLAG" THEN AllTrue(src.f["FLAG"]) ELSE src.f[x]])

\* lines 1006-1029: the table of k made from the one of the other category
\* (src); obs are the observables set to one. [st, t]
MirrorTable(src, obs, one) ==
    IF \E x \in Range(MirrorFields) : ~Has(src, x) THEN [st |-> "KeyError", t |-> src]
    ELSE [st |-> "ok",
          t |-> Fold(LAMBDA t, o : Put(t, o, Map2(OnePlus0, src.f[one])),
                     MirrorCopy(src), obs)]

\* w: the epochs of src that dst lacks
NewEpochs(dst, src) ==
    [i \in 1..Len(src.f["MJD"]) |-> ~(src.f["MJD"][i] \in Range(dst.f["MJD"]))]

\* the rows of field x to append: those of src, or 1+0*src[one]
EpochRows(src, x, one, w) ==
    IF Has(src, x) THEN Mask(src.f[x], w)
    ELSE Map2(LAMBDA v : UnitOf(x, v), Mask(src.f[one], w))

\* n = 0 rows make reshape(0, -1) raise
AppendRows(a, x, rows, n) ==
    IF a.st # "ok" THEN a
    ELSE IF n = 0 THEN [a EXCEPT !.st = "ValueError"]
    ELSE IF ~Has(a.t, x) THEN [a EXCEPT !.st = "KeyError"]
    ELSE IF ~CanAppend2(a.t.f[x], rows) THEN [a EXCEPT !.st = "ValueError"]
    ELSE [a EXCEPT !.t = Put(@, x, @.f[x] \o rows)]

\* the last n rows are flagged
FlagLast(r, n) ==
    IF r.st # "ok" THEN r
    ELSE [r EXCEPT !.t = Put(@, "FLAG",
             [i \in 1..Len(@.f["FLAG"]) |->
                 IF i > Len(@.f["FLAG"]) - n THEN Rep(Len(@.f["FLAG"][i]), TRUE)
                 ELSE @.f["FLAG"][i]])]

AppendMasked(dst, src, obs, one, w) ==
    FlagLast(Fold(LAMBDA a, x : AppendRows(a, x, EpochRows(src, x, one, w), Len(Where(w))),
                  [st |-> "ok",
                   t |-> [dst EXCEPT !.f["MJD"] = @ \o Mask(src.f["MJD"], w),
                                     !.f["u"] = @ \o Mask(src.f["u"], w),
                                     !.f["v"] = @ \o Mask(src.f["v"], w)]],
                  <<"u/wl", "v/wl", "B/wl", "FLAG", "PA">> \o obs),
             Len(Where(w)))

\* lines 1031-1049 and 1059-1078: the epochs of src that dst lacks, appended
\* to dst as flagged rows; obs are the observables of dst, one the field of
\* src that 1+0*... is taken of. [st, t]
AppendEpochs(dst, src, obs, one) == AppendMasked(dst, src, obs, one, NewEpochs(dst, src))

\* lines 1006-1029: [st, tv, tv2], the two tables of name k, one of them made
\* from the other if its category lacks the name
Mirror(m, isV, other) ==
    IF isV THEN [st |-> m.st, tv |-> m.t, tv2 |-> other]
    ELSE [st |-> m.st, tv |-> other, tv2 |-> m.t]

Mirrored(V, V2, k) ==
    IF ~Has(V, k) THEN Mirror(MirrorTable(V2.f[k], VisObs, "V2"), TRUE, V2.f[k])
    ELSE IF ~Has(V2, k) THEN Mirror(MirrorTable(V.f[k], Vis2Obs, "|V|"), FALSE, V.f[k])
    ELSE [st |-> "ok", tv |-> V.f[k], tv2 |-> V2.f[k]]

\* the number of distinct epochs of the two tables
Epochs(x) == Cardinality(Range(x.tv.f["MJD"]) \cup Range(x.tv2.f["MJD"]))

\* lines 1031-1049: OI_VIS has fewer rows than there are epochs
EpochsV(x) ==
    IF Len(x.tv.f["MJD"]) < Epochs(x) THEN AppendEpochs(x.tv, x.tv2, VisObs, "V2")
    ELSE [st |-> "ok", t |-> x.tv]

\* lines 1059-1078: OI_VIS2 has another number of rows than there are epochs
EpochsV2(x, a) ==
    IF Len(x.tv2.f["MJD"]) # Epochs(x) THEN AppendEpochs(x.tv2, a.t, Vis2Obs, "|V|")
    ELSE [st |-> "ok", t |-> x.tv2]

ReconcileV2(r, k, a, b) ==
    IF b.st # "ok" THEN [st |-> b.st, r |-> r]
    ELSE [st |-> "ok",
          r |-> [r EXCEPT !.tabs.f["OI_VIS"] = Put(@, k, a.t),
                          !.tabs.f["OI_VIS2"] = Put(@, k, b.t)]]

ReconcileV(r, k, x, a) ==
    IF a.st # "ok" THEN [st |-> a.st, r |-> r] ELSE ReconcileV2(r, k, a, EpochsV2(x, a))

ReconcileMirrored(r, k, x) ==
    IF x.st # "ok" THEN [st |-> x.st, r |-> r] ELSE ReconcileV(r, k, x, EpochsV(x))

\* lines 1005-1078 for one name k. [st, r]
ReconcileName(r, k) ==
    ReconcileMirrored(r, k, Mirrored(r.tabs.f["OI_VIS"], r.tabs.f["OI_VIS2"], k))

ReconcileNext(a, k) == IF a.st # "ok" THEN a ELSE ReconcileName(a.r, k)

\* lines 1001-1078 for one dataset. [st, r]
Reconcile(r, ho) ==
    IF Has(r.tabs, "OI_VIS") /\ Has(r.tabs, "OI_VIS2")
    THEN Fold(ReconcileNext, [st |-> "ok", r |-> r],
              SetIter(r.tabs.f["OI_VIS"].ks \o r.tabs.f["OI_VIS2"].ks, ho))
    ELSE [st |-> "ok", r |-> r]

\* lines 995-998
CleanLists(r, ho) ==
    [r EXCEPT !.telescopes = SetIter(@, ho), !.baselines = SetIter(@, ho),
              !.triangles = SetIter(@, ho)]

(***************************************************************************)
(* mergeOI, lines 1081-1109: the triangle formulas, derived again          *)
(***************************************************************************)
\* np.argmin(np.abs(MJD - mjd)), as the 0-based index python stores
NearestIdx(mjds, mjd) == ArgMin([i \in 1..Len(mjds) |-> Abs(mjds[i] - mjd)]) - 1

\* lines 1087-1095
FormulaKey(r, t) ==
    IF Has(r.tabs, "OI_VIS") /\ \A i \in 1..3 : Has(r.tabs.f["OI_VIS"], t[i]) THEN "OI_VIS"
    ELSE IF Has(r.tabs, "OI_VIS2") /\ \A i \in 1..3 : Has(r.tabs.f["OI_VIS2"], t[i])
    THEN "OI_VIS2"
    ELSE None

\* lines 1084-1109 for triangle k
FormulaOne(a, k) ==
    LET T   == a.r.tabs.f["OI_T3"].f[k]
        fm  == T.f["formula"]
        key == FormulaKey(a.r, fm[2])
        leg(n) == a.r.tabs.f[key].f[fm[2][n]].f["MJD"]
        w(n) == [e \in 1..Len(T.f["MJD"]) |-> NearestIdx(leg(n), T.f["MJD"][e])]
    IN IF a.st # "ok" THEN a
       ELSE IF T.f["MJD"] = <<>>
       THEN [a EXCEPT !.r.tabs.f["OI_T3"].f[k] =
                Put(T, "formula", <<fm[1], fm[2], <<>>, <<>>, <<>>>>)]
       ELSE IF key = None THEN [a EXCEPT !.st = "KeyError"]
       ELSE IF \E n \in 1..3 : leg(n) = <<>>
       THEN [a EXCEPT !.r.tabs.f["OI_T3"] = Pop(@, k)]
       ELSE [a EXCEPT !.r.tabs.f["OI_T3"].f[k] =
                Put(T, "formula", <<fm[1], fm[2], w(1), w(2), w(3)>>)]

\* lines 1084-1109 for one dataset. [st, r]
MergeFormulaCode(r) ==
    IF Has(r.tabs, "OI_T3")
    THEN Fold(FormulaOne, [st |-> "ok", r |-> r], r.tabs.f["OI_T3"].ks)
    ELSE [st |-> "ok", r |-> r]

\* mutant: the formulas are left as the first dataset of the setup had them
MergeFormulaKeep(r) == [st |-> "ok", r |-> r]

MergeFormula(r) == MergeFormulaCode(r)

(***************************************************************************)
(* mergeOI, lines 1127-1145: what is kept of 'fit'                         *)
(***************************************************************************)
PlainFit == {"obs", "wl ranges", "continuum ranges", "prior"}

Global == {"DPHI", "NFLUX"}

\* lines 1133-1141 for the key k of 'fit', whose value is the dict fk: tmp[k]
\* as the loop over p leaves it, and the pairs <<k, p>> the loop warns about
RECURSIVE KeepGlobal(_, _, _, _)
KeepGlobal(fk, k, ps, acc) ==
    IF ps = <<>> THEN acc
    ELSE LET p == Head(ps)
         IN KeepGlobal(fk, k, Tail(ps),
                IF p \notin DOMAIN fk THEN acc
                ELSE IF acc.in
                THEN [in |-> TRUE, tmp |-> (p :> fk[p]) @@ acc.tmp,
                      warn |-> IF p \in DOMAIN acc.tmp /\ acc.tmp[p] # fk[p]
                               THEN Append(acc.warn, <<k, p>>) ELSE acc.warn]
                ELSE [in |-> TRUE, tmp |-> (p :> fk[p]), warn |-> acc.warn])

\* lines 1131-1138: the warnings printed for one merged dataset
RECURSIVE FitWarned(_, _)
FitWarned(fit, ks) ==
    IF ks = {} THEN <<>>
    ELSE LET k == CHOOSE x \in ks : TRUE
         IN KeepGlobal(fit[k], k, <<"DPHI", "NFLUX">>,
                       [in |-> FALSE, tmp |-> <<>>, warn |-> <<>>]).warn
            \o FitWarned(fit, ks \ {k})

\* lines 1128-1138: the warnings printed for the merged datasets
Warned(rs) ==
    Flatten([i \in 1..Len(rs) |->
        IF rs[i].hasfit THEN FitWarned(rs[i].fit, DOMAIN rs[i].fit \ PlainFit) ELSE <<>>])

FitRetain(fit) ==
    LET dk == {k \in DOMAIN fit \ PlainFit : DOMAIN fit[k] \cap Global # {}}
    IN [k \in (DOMAIN fit \cap PlainFit) \cup dk |->
           IF k \in dk THEN [p \in DOMAIN fit[k] \cap Global |-> fit[k][p]] ELSE fit[k]]

(***************************************************************************)
(* _allInOneOI, lines 1214-1302                                            *)
(***************************************************************************)
ALL == <<"a", "l", "l">>

\* one day, which the name mismatch adds to the epoch distance (line 1290)
Day == 20000

RECURSIVE Prod(_)
Prod(s) == IF s = <<>> THEN 1 ELSE Head(s) * Prod(Tail(s))

Without(s, i) == SubSeq(s, 1, i-1) \o SubSeq(s, i+1, Len(s))

\* lines 1229-1246 for one channel: F and E the fluxes and errors of the rows
\* that are not flagged there. sum(F/E)/sum(1/E) and 1/sum(1/E) as fractions
\* over the common denominator prod(E); <<flux, eflux, flag>>
FluxCell(F, E) ==
    LET N  == SumSeq([i \in 1..Len(E) |-> Prod(Without(E, i))])
        FN == IF NaN \in Range(F) THEN NaN
              ELSE SumSeq([i \in 1..Len(E) |-> F[i] * Prod(Without(E, i))])
    IN IF E = <<>> THEN <<0, 0, TRUE>>
       ELSE IF NaN \in Range(E) THEN <<NaN, 0, TRUE>>
       ELSE IF 0 \in Range(E) THEN <<NaN, 0, FALSE>>
       ELSE IF N = 0 \/ (N > 0) # (Prod(E) > 0) THEN <<FN, 0, TRUE>>
       ELSE <<IF FN = NaN THEN NaN ELSE FN \div N, Prod(E) \div N, FALSE>>

\* lines 1224-1253: the table 'all' of OI_FLUX
FluxAll(oi) ==
    LET d    == oi.tabs.f["OI_FLUX"]
        rows == Flatten([x \in 1..Len(d.ks) |->
                    [j \in 1..Len(d.f[d.ks[x]].f["MJD"]) |-> <<d.ks[x], j>>]])
        mjdOf(r) == d.f[r[1]].f["MJD"][r[2]]
        mjds == Dedup([i \in 1..Len(rows) |-> mjdOf(rows[i])])
        at(m) == SelectSeq(rows, LAMBDA r : mjdOf(r) = m)
        ok(m, c) == SelectSeq(at(m), LAMBDA r : ~d.f[r[1]].f["FLAG"][r[2]][c])
        cell(m, c) == FluxCell([i \in 1..Len(ok(m, c)) |->
                                   d.f[ok(m, c)[i][1]].f["FLUX"][ok(m, c)[i][2]][c]],
                               [i \in 1..Len(ok(m, c)) |->
                                   d.f[ok(m, c)[i][1]].f["EFLUX"][ok(m, c)[i][2]][c]])
        col(n) == [i \in 1..Len(mjds) |-> [c \in 1..Len(oi.WL) |-> cell(mjds[i], c)[n]]]
    IN Dict(<<"FLUX", "EFLUX", "FLAG", "NAME", "MJD">>,
            [FLUX |-> col(1), EFLUX |-> col(2), FLAG |-> col(3),
             NAME |-> [i \in 1..Len(mjds) |->
                          Flatten([x \in 1..Len(at(mjds[i])) |-> at(mjds[i])[x][1]])],
             MJD |-> mjds])

\* the fields that hold one value per row
Flat(f) == f \in {"MJD", "u", "v", "u1", "v1", "u2", "v2", "B1", "B2", "B3", "formula"}

\* the rows that table k brings to field f (its formula, once per row)
StackVal(d, k, f) ==
    IF f = "formula" THEN Rep(Len(d.f[k].f["MJD"]), d.f[k].f[f]) ELSE d.f[k].f[f]

StackCell(a, f, val) ==
    IF a.st # "ok" THEN a
    ELSE IF ~Has(a.t, f) THEN [a EXCEPT !.t = Put(@, f, val)]
    ELSE IF ~Flat(f) /\ ~CanAppend2(a.t.f[f], val) THEN [a EXCEPT !.st = "ValueError"]
    ELSE [a EXCEPT !.t = Put(@, f, @.f[f] \o val)]

\* the tables of d but 'all', ks being their names
StackOf(d, ks) ==
    Fold(LAMBDA a, x : StackCell(a, x[2], StackVal(d, x[1], x[2])),
         [st |-> "ok",
          t |-> Dict(<<"NAME">>, [NAME |-> Flatten([x \in 1..Len(ks) |->
                                      Rep(Len(d.f[ks[x]].f["MJD"]), ks[x])])])],
         Flatten([x \in 1..Len(ks) |->
                     [y \in 1..Len(d.f[ks[x]].ks) |-> <<ks[x], d.f[ks[x]].ks[y]>>]]))

\* lines 1256-1276: the tables of one category other than 'all', stacked.
\* A field that a later table brings first starts with that table's rows.
\* [st, t]
Stack(d) == StackOf(d, SelectSeq(d.ks, LAMBDA k : k # ALL))

\* lines 1278-1294: the formula of the table 'all' of OI_T3. [st, t]
AllFormula(oi) ==
    LET key  == IF Has(oi.tabs, "OI_VIS") THEN "OI_VIS" ELSE "OI_VIS2"
        T    == oi.tabs.f["OI_T3"].f[ALL]
        B    == oi.tabs.f[key].f[ALL]
        n    == Len(T.f["MJD"])
        dist(e, nm) == [i \in 1..Len(B.f["MJD"]) |->
                           Abs(B.f["MJD"][i] - T.f["MJD"][e]) +
                           (IF B.f["NAME"][i] # nm THEN Day ELSE 0)]
        s(x) == [e \in 1..n |-> T.f["formula"][e][1][x]]
        w(x) == [e \in 1..n |-> ArgMin(dist(e, T.f["formula"][e][2][x])) - 1]
    IN IF ~Has(T, "MJD") THEN [st |-> "KeyError", t |-> T]
       ELSE IF n = 0 THEN [st |-> "ok",
                           t |-> Put(T, "formula", <<<<<<>>, <<>>, <<>>>>, <<ALL, ALL, ALL>>,
                                                     <<>>, <<>>, <<>>>>)]
       ELSE IF ~Has(oi.tabs, key) \/ ~Has(B, "MJD") THEN [st |-> "KeyError", t |-> T]
       ELSE IF B.f["MJD"] = <<>> THEN [st |-> "ValueError", t |-> T]
       ELSE [st |-> "ok",
             t |-> Put(T, "formula", <<<<s(1), s(2), s(3)>>, <<ALL, ALL, ALL>>,
                                       w(1), w(2), w(3)>>)]

\* lines 1295-1301
OnlyAll(oi) ==
    [oi EXCEPT !.tabs = [ks |-> @.ks,
                         f |-> [c \in Range(@.ks) |->
                                   [ks |-> SelectSeq(@.f[c].ks, LAMBDA k : k = ALL),
                                    f |-> [k \in Range(@.f[c].ks) \cap {ALL} |-> @.f[c].f[k]]]]],
               !.telescopes = <<ALL>>, !.baselines = <<ALL>>, !.triangles = <<ALL>>]

\* lines 1255-1276 for the category e of the dataset a.r
StackDone(a, e, sk) ==
    IF sk.st # "ok" THEN [a EXCEPT !.st = sk.st]
    ELSE [a EXCEPT !.r.tabs.f[e] = Put(@, ALL, sk.t)]

StackInto(a, e) ==
    IF a.st # "ok" THEN a ELSE StackDone(a, e, Stack(a.r.tabs.f[e]))

\* lines 1278-1301, fm being the formula of the collapsed triangle
AllEnd(r, fm) ==
    IF fm.st # "ok" THEN [st |-> fm.st, r |-> r]
    ELSE [st |-> "ok", r |-> OnlyAll([r EXCEPT !.tabs.f["OI_T3"] = Put(@, ALL, fm.t)])]

\* lines 1278-1301 on the outcome o2 of the stacking
AllT3(o2) ==
    IF o2.st # "ok" THEN o2
    ELSE IF ~Has(o2.r.tabs, "OI_T3") THEN [st |-> "ok", r |-> OnlyAll(o2.r)]
    ELSE AllEnd(o2.r, AllFormula(o2.r))

\* lines 1224-1253
WithFluxAll(oi) ==
    IF Has(oi.tabs, "OI_FLUX")
    THEN [oi EXCEPT !.tabs.f["OI_FLUX"] = Put(@, ALL, FluxAll(oi))] ELSE oi

\* the whole call on one dataset; the dataset is changed in place, so r is
\* what the caller's dataset holds afterwards, also when the call raises.
\* [st, r]
allInOneOI(oi) ==
    AllT3(Fold(StackInto, [st |-> "ok", r |-> WithFluxAll(oi)],
               SelectSeq(<<"OI_VIS", "OI_VIS2", "OI_T3">>, LAMBDA e : Has(oi.tabs, e))))

(***************************************************************************)
(* mergeOI, the whole call (lines 859-1147).                               *)
(* [st, err, res, ins]: res the returned datasets, ins the inputs as the   *)
(* call leaves them (also when it raises)                                  *)
(***************************************************************************)
\* one step of the call applied to every dataset of res, up to the first exception
EachStep(prev, x) ==
    IF prev.st # "ok" THEN prev ELSE [st |-> x.st, res |-> Append(prev.res, x.r)]

Each(Op(_), a) ==
    IF a.st # "ok" THEN a
    ELSE Fold(LAMBDA prev, x : EachStep(prev, Op(x)), [st |-> "ok", res |-> <<>>], a.res)

\* lines 995-998
Cleaned(r, ho) == [st |-> "ok", r |-> CleanLists(r, ho)]

\* lines 1127-1145
Retained(r) == [st |-> "ok", r |-> IF r.hasfit THEN [r EXCEPT !.fit = FitRetain(@)] ELSE r]

\* lines 1123-1125
Collapsed(a, collapse) == IF collapse THEN Each(allInOneOI, a) ELSE a

\* lines 1147: the list is returned unless a step raised
Returned(a, ins, warn) ==
    [st  |-> IF a.st = "ok" THEN "ok" ELSE "raise",
     err |-> IF a.st = "ok" THEN None ELSE a.st,
     res |-> IF a.st = "ok" THEN a.res ELSE <<>>,
     ins |-> ins,
     warn |-> warn]

\* lines 995-1147 on the datasets a0 that lines 871-993 built
MergeEnd(a0, collapse, ho) ==
    LET a == Collapsed(Each(MergeFormula,
                            Each(LAMBDA r : Reconcile(r, ho),
                                 Each(LAMBDA r : Cleaned(r, ho),
                                      [st |-> a0.st, res |-> a0.res]))),
                       collapse)
    IN Returned(Each(Retained, a), a0.ins, IF a.st = "ok" THEN Warned(a.res) ELSE <<>>)

mergeOI(OIin, collapse, ho) == MergeEnd(MergeLoop(OIin), collapse, ho)

(***************************************************************************)
(* The files on disk and the calls made on them                            *)
(***************************************************************************)
WLa == <<1600000000, 1700000000>>

\* the same grid but for 1e-9 um in the first channel
WLb == <<1600000001, 1700000000>>

WL4 == <<1600000000, 1700000000, 1800000000, 1900000000>>

St(c) == <<c>>

\* a row of a data extension: nw channels, signal 50 +- 5, phase 0 +- 1
Row(sta, mjd, uv, nw) ==
    [sta |-> [i \in 1..Len(sta) |-> St(sta[i])], targ |-> 1, mjd |-> mjd, uv |-> uv,
     d |-> Rep(nw, 50), e |-> Rep(nw, 5), d2 |-> Rep(nw, 0), e2 |-> Rep(nw, 1),
     flag |-> Rep(nw, FALSE)]

AB(mjd) == Row(<<"A", "B">>, mjd, <<10, 0>>, 2)

BC(mjd) == Row(<<"B", "C">>, mjd, <<0, 10>>, 2)

AC(mjd) == Row(<<"A", "C">>, mjd, <<10, 10>>, 2)

CD(mjd) == Row(<<"C", "D">>, mjd, <<5, 5>>, 2)

ABC(mjd) == Row(<<"A", "B", "C">>, mjd, <<10, 0, 0, 10>>, 2)

ABD(mjd) == Row(<<"A", "B", "D">>, mjd, <<10, 0, 5, 15>>, 2)

Hdu(ext, ins, rows) == [ext |-> ext, insname |-> ins, rows |-> rows]

File(fid, targets, wave, hdus) ==
    [fid |-> fid, targets |-> targets, wave |-> wave, hdus |-> hdus, tell |-> <<>>]

OneT == <<<<"T", 1>>>>

Ia == <<[insname |-> "I", wl |-> WLa]>>

Files ==
    << File("a", OneT, Ia, <<Hdu("OI_VIS2", "I", <<AB(10)>>), Hdu("OI_T3", "I", <<ABC(10)>>)>>),
       File("b", OneT, Ia, <<Hdu("OI_VIS2", "I", <<AB(10), BC(10), AC(10)>>),
                             Hdu("OI_T3", "I", <<ABC(10)>>)>>),
       File("c", OneT, Ia, <<Hdu("OI_VIS", "I", <<AB(20)>>)>>),
       File("d", OneT, Ia, <<Hdu("OI_VIS2", "I", <<AB(20)>>),
                             Hdu("OI_FLUX", "I", <<Row(<<"A">>, 20, <<>>, 2),
                                                   Row(<<"B">>, 20, <<>>, 2)>>)>>),
       File("e", OneT, <<[insname |-> "I", wl |-> WLb]>>,
            <<Hdu("OI_VIS2", "I", <<AB(10)>>)>>),
       File("f", OneT, <<[insname |-> "I", wl |-> WLa], [insname |-> "J", wl |-> WLa]>>,
            <<Hdu("OI_VIS2", "I", <<AB(10)>>), Hdu("OI_VIS2", "J", <<AB(10)>>)>>),
       File("g", <<<<"T", 1>>, <<"U", 2>>>>, Ia, <<Hdu("OI_VIS2", "I", <<AB(10)>>)>>),
       File("h", OneT, Ia, <<Hdu("OI_VIS2", "I", <<CD(10)>>),
                             Hdu("OI_T3", "I", <<ABC(10), ABD(20)>>)>>) >>

FileIds == 1..Len(Files)

\* the 'fit' dicts a user attaches to a dataset
Fits == { ("min error" :> ("V2" :> 10)),
          ("max error" :> ("NFLUX" :> 1)) }

HashOrders == {"fwd", "rev"}

\* how many datasets the list OI may hold
MaxOI == 2

\* how many datasets of OI may carry a 'fit'
MaxFit == 1

\* the calls of loadOI: every file with the defaults, and a call that names an
\* instrument the file does not have, one that names the target, one that rebins
Args(i, ins, targ, bin) == [file |-> i, insname |-> ins, targname |-> targ, binning |-> bin]

LoadArgs == {Args(i, None, None, 0) : i \in FileIds}
            \cup {Args(2, "X", None, 0), Args(7, None, "T", 0), Args(1, None, None, 2)}

\* files over four channels whose rows come flagged, or with a non-finite
\* sample, or with a large error
I4 == <<[insname |-> "I", wl |-> WL4]>>

FRow(sta, mjd, uv, d, e, flag) ==
    [Row(sta, mjd, uv, 4) EXCEPT !.d = d, !.e = e, !.flag = flag]

Sig == <<50, 50, 50, 50>>

Err == <<5, 5, 5, 5>>

FlagFiles ==
    << File("p", OneT, I4,
            <<Hdu("OI_VIS2", "I", <<FRow(<<"A", "B">>, 10, <<10, 0>>, Sig, <<5, 5, 5, 20>>,
                                         <<FALSE, TRUE, FALSE, FALSE>>)>>)>>),
       File("q", OneT, I4,
            <<Hdu("OI_VIS2", "I", <<FRow(<<"A", "B">>, 10, <<10, 0>>, <<50, 50, NaN, 50>>, Err,
                                         <<FALSE, FALSE, FALSE, FALSE>>)>>),
              Hdu("OI_VIS2", "I", <<FRow(<<"A", "B">>, 20, <<10, 0>>, Sig, Err,
                                         <<TRUE, FALSE, FALSE, FALSE>>)>>)>>),
       File("r", OneT, I4,
            <<Hdu("OI_VIS", "I", <<FRow(<<"A", "B">>, 20, <<10, 0>>, Sig, Err,
                                        <<FALSE, FALSE, TRUE, TRUE>>)>>)>>),
       File("s", OneT, I4,
            <<Hdu("OI_VIS2", "I", <<FRow(<<"A", "B">>, 10, <<10, 0>>, Sig, Err,
                                         <<FALSE, FALSE, FALSE, FALSE>>),
                                    FRow(<<"B", "C">>, 10, <<0, 10>>, Sig, Err,
                                         <<TRUE, TRUE, TRUE, TRUE>>)>>),
              Hdu("OI_T3", "I", <<FRow(<<"A", "B", "C">>, 10, <<10, 0, 0, 10>>, Sig, Err,
                                       <<FALSE, TRUE, FALSE, FALSE>>)>>)>>) >>

FlagArgs == {Args(i, None, None, b) : i \in 1..Len(FlagFiles), b \in {0, 1, 2}}

FlagFits == { ("max error" :> ("V2" :> 10)),
              ("max error" :> ("NFLUX" :> 1)) }

\* files whose closures refer to baselines the file lacks, or lacks at some
\* epoch, files of two targets, T (id 1) and U (id 2), files that hold a
\* name in two extensions of one category, and files with samples that are
\* not numbers or a telluric transmission of 0
TwoT == <<<<"T", 1>>, <<"U", 2>>>>

OfU(r) == [r EXCEPT !.targ = 2]

\* the stations on the ground, and the closure rows over them: (u1, v1) is the
\* vector from the first station to the second, (u2, v2) from the second to
\* the third (the baseline rows AB, BC, AC and CD follow the same positions)
PosX(c) == CASE c = "A" -> 0 [] c = "B" -> 10 [] c = "C" -> 10 [] OTHER -> 15

PosY(c) == CASE c = "A" -> 0 [] c = "B" -> 0 [] c = "C" -> 10 [] OTHER -> 15

Tri(sta, mjd) ==
    Row(sta, mjd, <<PosX(sta[2]) - PosX(sta[1]), PosY(sta[2]) - PosY(sta[1]),
                    PosX(sta[3]) - PosX(sta[2]), PosY(sta[3]) - PosY(sta[2])>>, 2)

\* the row r with a phase that is not a number in the first channel
NoPhase(r) == [r EXCEPT !.d2 = <<NaN, 0>>]

\* the row r with a signal that is not a number in the first channel, an
\* error that is not in the second, and the raw flag of neither
NoSignal(r) == [r EXCEPT !.d = <<NaN, 50>>, !.e = <<5, NaN>>]

ClosureFiles ==
    << File("t", TwoT, Ia, <<Hdu("OI_FLUX", "I", <<Row(<<"A">>, 10, <<>>, 2),
                                                   Row(<<"B">>, 10, <<>>, 2)>>),
                             Hdu("OI_VIS2", "I", <<OfU(AB(10))>>)>>),
       File("u", TwoT, Ia, <<Hdu("OI_VIS2", "I", <<OfU(AB(10))>>),
                             Hdu("OI_VIS2", "I", <<AB(10), BC(10), AC(10)>>),
                             Hdu("OI_T3", "I", <<OfU(ABC(10))>>),
                             Hdu("OI_T3", "I", <<ABC(10)>>)>>),
       File("v", OneT, Ia, <<Hdu("OI_VIS2", "I", <<CD(10)>>),
                             Hdu("OI_T3", "I", <<Tri(<<"B", "A", "C">>, 10),
                                                 Tri(<<"A", "B", "D">>, 10)>>)>>),
       File("w", OneT, Ia, <<Hdu("OI_VIS2", "I", <<AB(10), AB(30)>>),
                             Hdu("OI_T3", "I", <<ABC(10), ABC(11), ABC(12), ABC(20)>>)>>),
       File("x", OneT, Ia, <<Hdu("OI_VIS2", "I", <<AB(10)>>),
                             Hdu("OI_T3", "I", <<ABC(10), Tri(<<"C", "B", "D">>, 20)>>)>>),
       File("y", OneT, Ia, <<Hdu("OI_VIS2", "I", <<AB(10)>>),
                             Hdu("OI_VIS2", "I", <<BC(10), AC(10)>>),
                             Hdu("OI_T3", "I", <<ABC(10)>>)>>),
       File("z", OneT, Ia, <<Hdu("OI_VIS", "I", <<AB(10)>>),
                             Hdu("OI_T3", "I", <<ABC(20)>>)>>),
       File("m", TwoT, Ia, <<Hdu("OI_VIS2", "I", <<AB(10), BC(10), AC(10)>>),
                             Hdu("OI_T3", "I", <<ABC(10), OfU(Tri(<<"A", "B", "D">>, 10))>>)>>),
       File("n", OneT, Ia, <<Hdu("OI_VIS2", "I", <<AB(10)>>),
                             Hdu("OI_T3", "I", <<ABC(10), Tri(<<"C", "B", "D">>, 11)>>)>>),
       File("o", OneT, Ia, <<Hdu("OI_FLUX", "I", <<Row(<<"A">>, 10, <<>>, 2),
                                                   Row(<<"B">>, 10, <<>>, 2)>>),
                             Hdu("OI_FLUX", "I", <<Row(<<"A">>, 20, <<>>, 2)>>),
                             Hdu("OI_VIS2", "I", <<AB(10), BC(10), AC(10)>>),
                             Hdu("OI_VIS2", "I", <<AB(20), BC(20), AC(20)>>),
                             Hdu("OI_T3", "I", <<ABC(10)>>),
                             Hdu("OI_T3", "I", <<ABC(20)>>)>>),
       File("i", OneT, Ia, <<Hdu("OI_VIS", "I", <<AB(10)>>),
                             Hdu("OI_VIS", "I", <<AB(20)>>)>>),
       File("1", OneT, Ia, <<Hdu("OI_VIS", "I", <<NoPhase(AB(10))>>)>>),
       File("2", OneT, Ia, <<Hdu("OI_VIS2", "I", <<NoSignal(AB(10))>>),
                             Hdu("OI_VIS2", "I", <<AB(20)>>)>>),
       [File("3", OneT, Ia, <<Hdu("OI_FLUX", "I", <<Row(<<"A">>, 10, <<>>, 2)>>),
                              Hdu("OI_VIS2", "I", <<AB(10)>>)>>)
           EXCEPT !.tell = <<0, 10>>] >>

ClosureArgs == {Args(i, None, "T", 0) : i \in 1..Len(ClosureFiles)}


(***************************************************************************)
(* The session: the files on disk, the list OI of the datasets loaded from  *)
(* them, res, the list mergeOI made of OI, and kept, the list a merge of a *)
(* part of OI made                                                         *)
(***************************************************************************)
Loading == ret.op \in {"init", "loadOI", "loadOIlist", "fit"}

Ret(o, st, err, opened, closed, args, pre, out) ==
    [op |-> o, st |-> st, err |-> err, opened |-> opened, closed |-> closed,
     args |-> args, pre |-> pre, out |-> out]

\* the last call returned
LoadedOK == ret.op \in {"loadOI", "loadOIlist"} /\ ret.st # "raise"

MergedOK == ret.op = "mergeOI" /\ ret.st = "ok"

CollapsedOK == ret.op = "allInOneOI" /\ ret.st = "ok"

Init ==
    /\ OI = <<>>
    /\ res = <<>>
    /\ ret = Ret("init", "ok", None, 0, 0, <<>>, <<>>, <<>>)
    /\ disk = Files
    /\ kept = <<>>

\* the list OI after the call returned r (nothing is added when it raised)
Loaded(o, r, args, old) ==
    /\ Len(old) + Len(r.ds) <= MaxOI
    /\ OI' = old \o r.ds
    /\ ret' = Ret(o, r.st, r.err, r.opened, r.closed, args, <<>>, r.ds)
    /\ UNCHANGED <<res, disk, kept>>

\* OI.extend(loadOI(file, ...)) or OI.append(loadOI(file, ...))
Load(a, ho) ==
    /\ Loading
    /\ a.file \in 1..Len(disk)
    /\ Loaded("loadOI", loadOI(disk[a.file], a.insname, a.targname, a.binning, <<>>, ho),
              <<a, ho>>, OI)

\* OI = loadOI([file1, file2])
LoadList(fs, ho) ==
    /\ Loading
    /\ OI = <<>>
    /\ \A i \in 1..Len(fs) : fs[i] \in 1..Len(disk)
    /\ Loaded("loadOIlist",
              loadOIlist([i \in 1..Len(fs) |-> disk[fs[i]]], None, None, 0, <<>>, ho),
              <<fs, ho>>, <<>>)

\* OI[i]['fit'] = fit
SetFit(i, fit) ==
    /\ Loading
    /\ i \in 1..Len(OI)
    /\ Cardinality({j \in 1..Len(OI) : OI[j].hasfit}) < MaxFit
    /\ ~OI[i].hasfit
    /\ OI' = [OI EXCEPT ![i].hasfit = TRUE, ![i].fit = fit]
    /\ ret' = Ret("fit", "ok", None, 0, 0, <<i>>, <<>>, <<>>)
    /\ UNCHANGED <<res, disk, kept>>

Merged(m, args) ==
    /\ res' = m.res
    /\ OI' = m.ins
    /\ ret' = Ret("mergeOI", m.st, m.err, 0, 0, args, OI, m.warn)
    /\ UNCHANGED <<disk, kept>>

\* res = mergeOI(OI, collapse=collapse)
Merge(collapse, ho) ==
    /\ Loading
    /\ OI # <<>>
    /\ Merged(mergeOI(OI, collapse, ho), <<collapse, ho>>)

CollapsedOne(i, c) ==
    /\ res' = [res EXCEPT ![i] = c.r]
    /\ ret' = Ret("allInOneOI", IF c.st = "ok" THEN "ok" ELSE "raise",
                  IF c.st = "ok" THEN None ELSE c.st, 0, 0, <<i>>, <<res[i]>>, <<>>)
    /\ UNCHANGED <<OI, disk, kept>>

\* _allInOneOI(res[i])
Collapse(i) ==
    /\ ret.op = "mergeOI"
    /\ i \in 1..Len(res)
    /\ CollapsedOne(i, allInOneOI(res[i]))

Next ==
    \/ \E a \in LoadArgs, ho \in HashOrders : Load(a, ho)
    \/ \E i, j \in FileIds, ho \in HashOrders : LoadList(<<i, j>>, ho)
    \/ \E i \in 1..MaxOI, fit \in Fits : SetFit(i, fit)
    \/ \E collapse \in BOOLEAN, ho \in HashOrders : Merge(collapse, ho)
    \/ \E i \in 1..MaxOI : Collapse(i)

Spec == Init /\ [][Next]_vars

\* the same session over the files whose rows come flagged, loaded as they are
\* or rebinned, filtered by a 'fit' and merged
InitFlag ==
    /\ OI = <<>>
    /\ res = <<>>
    /\ ret = Ret("init", "ok", None, 0, 0, <<>>, <<>>, <<>>)
    /\ disk = FlagFiles
    /\ kept = <<>>

NextFlag ==
    \/ \E a \in FlagArgs, ho \in HashOrders : Load(a, ho)
    \/ \E i \in 1..MaxOI, fit \in FlagFits : SetFit(i, fit)
    \/ \E ho \in HashOrders : Merge(FALSE, ho)

SpecFlag == InitFlag /\ [][NextFlag]_vars

\* three datasets of one setup, as loadOI([f1, f2, f3]) returns them, merged
\* at once into res, and merged in two steps into kept:
\*     res = mergeOI(OI); kept = mergeOI(OI[:2]); kept = mergeOI(kept + OI[2:])
Triples ==
    {t \in {loadOIlist(<<Files[f[1]], Files[f[2]], Files[f[3]]>>, None, None, 0, <<>>, f[4]) :
               f \in FileIds \X FileIds \X FileIds \X HashOrders} :
        /\ t.st # "raise"
        /\ Len(t.ds) = 3
        /\ \A i \in 2..3 : Setup(t.ds[i]) = Setup(t.ds[1])}

InitAssoc ==
    /\ \E t \in Triples :
          /\ OI = t.ds
          /\ ret = Ret("loadOIlist", t.st, t.err, t.opened, t.closed, <<>>, <<>>, t.ds)
    /\ res = <<>>
    /\ disk = Files
    /\ kept = <<>>

MergedPart(m, o, args, pre, ins) ==
    /\ kept' = m.res
    /\ OI' = ins
    /\ ret' = Ret(o, m.st, m.err, 0, 0, args, pre, <<>>)
    /\ UNCHANGED <<res, disk>>

\* kept = mergeOI(OI[:2])
MergeFirst(ho) ==
    /\ MergedOK
    /\ Len(OI) = 3
    /\ MergedPart(mergeOI(SubSeq(OI, 1, 2), FALSE, ho), "mergeFirst", <<FALSE, ho>>,
                  SubSeq(OI, 1, 2),
                  mergeOI(SubSeq(OI, 1, 2), FALSE, ho).ins \o SubSeq(OI, 3, 3))

\* kept = mergeOI(kept + OI[2:])
MergeRest(ho) ==
    /\ ret.op = "mergeFirst" /\ ret.st = "ok"
    /\ MergedPart(mergeOI(kept \o SubSeq(OI, 3, 3), FALSE, ho), "mergeRest", <<FALSE, ho>>,
                  kept \o SubSeq(OI, 3, 3),
                  SubSeq(OI, 1, 2) \o
                  SubSeq(mergeOI(kept \o SubSeq(OI, 3, 3), FALSE, ho).ins, Len(kept) + 1,
                         Len(kept) + 1))

NextAssoc ==
    \/ \E ho \in HashOrders : Merge(FALSE, ho)
    \/ \E ho \in HashOrders : MergeFirst(ho)
    \/ \E ho \in HashOrders : MergeRest(ho)

SpecAssoc == InitAssoc /\ [][NextAssoc]_vars

\* the same session over the files with closures and two targets, loaded only
InitClosure ==
    /\ OI = <<>>
    /\ res = <<>>
    /\ ret = Ret("init", "ok", None, 0, 0, <<>>, <<>>, <<>>)
    /\ disk = ClosureFiles
    /\ kept = <<>>

NextClosure == \E a \in ClosureArgs, ho \in HashOrders : Load(a, ho)

SpecClosure == InitClosure /\ [][NextClosure]_vars

\* the epoch mjd two nights later
Later(mjd) == mjd + 2 * Day

\* files of two nights: b as above, j holds baseline AB of the second night
\* in OI_VIS, k is b taken again on the second night
NightFiles ==
    << File("b", OneT, Ia, <<Hdu("OI_VIS2", "I", <<AB(10), BC(10), AC(10)>>),
                             Hdu("OI_T3", "I", <<ABC(10)>>)>>),
       File("j", OneT, Ia, <<Hdu("OI_VIS", "I", <<AB(Later(10))>>)>>),
       File("k", OneT, Ia, <<Hdu("OI_VIS2", "I", <<AB(Later(10)), BC(Later(10)),
                                                   AC(Later(10))>>),
                             Hdu("OI_T3", "I", <<ABC(Later(10))>>)>>) >>

\* the lists of three datasets that loadOI([f1, f2, f3]) returns for them
NightLists ==
    {t \in {loadOIlist(<<NightFiles[f[1]], NightFiles[f[2]], NightFiles[f[3]]>>,
                       None, None, 0, <<>>, f[4]) :
               f \in (1..3) \X (1..3) \X (1..3) \X HashOrders} :
        t.st # "raise"}

\* the session over the files of two nights: three of them loaded as a list,
\* then merged and collapsed
InitNights ==
    /\ \E t \in NightLists :
          /\ OI = t.ds
          /\ ret = Ret("loadOIlist", t.st, t.err, t.opened, t.closed, <<>>, <<>>, t.ds)
    /\ res = <<>>
    /\ disk = NightFiles
    /\ kept = <<>>

NextNights ==
    \/ \E collapse \in BOOLEAN, ho \in HashOrders : Merge(collapse, ho)
    \/ \E i \in 1..MaxOI : Collapse(i)

SpecNights == InitNights /\ [][NextNights]_vars

(***************************************************************************)
(* Files of two instruments, I and J, with one target and with two, loaded  *)
(* with and without the options of loadOI                                   *)
(***************************************************************************)
IJ == <<[insname |-> "I", wl |-> WLa], [insname |-> "J", wl |-> WLa]>>

InsFiles ==
    << File("7", OneT, IJ, <<Hdu("OI_VIS2", "I", <<AB(10)>>), Hdu("OI_VIS2", "J", <<AB(20)>>)>>),
       File("8", TwoT, IJ, <<Hdu("OI_VIS2", "I", <<AB(10), OfU(AB(20))>>),
                             Hdu("OI_VIS2", "J", <<AB(10), OfU(AB(20))>>)>>) >>

InsArgs == {Args(i, ins, targ, b) : i \in 1..Len(InsFiles), ins \in {None, "J"},
                                    targ \in {None, "U"}, b \in {0, 2}}

\* the transmissions a caller gives for the two channels, or none
InsTellurics == {<<>>, <<5, 10>>}

InitIns ==
    /\ OI = <<>>
    /\ res = <<>>
    /\ ret = Ret("init", "ok", None, 0, 0, <<>>, <<>>, <<>>)
    /\ disk = InsFiles
    /\ kept = <<>>

\* OI += loadOI(file, insname=, targname=, binning=, tellurics=)
LoadWith(a, tellurics, ho) ==
    /\ Loading
    /\ a.file \in 1..Len(disk)
    /\ Loaded("loadOI", loadOI(disk[a.file], a.insname, a.targname, a.binning, tellurics, ho),
              <<a, ho, tellurics>>, OI)

NextIns == \E a \in InsArgs, t \in InsTellurics, ho \in HashOrders : LoadWith(a, t, ho)

SpecIns == InitIns /\ [][NextIns]_vars

(***************************************************************************)
(* Datasets that carry 'fit' dicts, the same or others: two files of one    *)
(* signature, two nights apart, with fluxes and differential phases, a file *)
(* of another wavelength grid and a file of other stations                  *)
(***************************************************************************)
FluxVis(mjd) == <<Hdu("OI_FLUX", "I", <<Row(<<"A">>, mjd, <<>>, 2), Row(<<"B">>, mjd, <<>>, 2)>>),
                  Hdu("OI_VIS", "I", <<AB(mjd)>>)>>

ConflictFiles ==
    << File("4", OneT, Ia, FluxVis(10)),
       File("5", OneT, Ia, FluxVis(Later(10))),
       File("6", OneT, <<[insname |-> "I", wl |-> WLb]>>, FluxVis(10)),
       File("9", OneT, Ia, <<Hdu("OI_FLUX", "I", <<Row(<<"C">>, 10, <<>>, 2)>>),
                             Hdu("OI_VIS", "I", <<BC(10)>>)>>) >>

\* the 'fit' dicts with the keys of the differential observables, and dicts
\* of two rules: errors doubled or raised to 10, and a ceiling of 8
ConflictFits ==
    {(r :> (p :> v)) : r \in {"max error", "min error"}, p \in {"DPHI", "NFLUX"}, v \in {1, 2}}
    \cup {("max error" :> ("DPHI" :> 1 @@ "NFLUX" :> 2)),
          ("mult error" :> ("FLUX" :> 2) @@ "max error" :> ("FLUX" :> 8)),
          ("min error" :> ("|V|" :> 10) @@ "max error" :> ("|V|" :> 8))}

ConflictLists ==
    {t \in {loadOIlist(<<ConflictFiles[f[1]], ConflictFiles[f[2]]>>, None, None, 0, <<>>, "fwd") :
               f \in (1..Len(ConflictFiles)) \X (1..Len(ConflictFiles))} :
        t.st # "raise"}

InitConflict ==
    /\ \E t \in ConflictLists :
          /\ OI = t.ds
          /\ ret = Ret("loadOIlist", t.st, t.err, t.opened, t.closed, <<>>, <<>>, t.ds)
    /\ res = <<>>
    /\ disk = ConflictFiles
    /\ kept = <<>>

\* OI[i]['fit'] = fit, for any number of the datasets
Attach(i, fit) ==
    /\ Loading
    /\ i \in 1..Len(OI)
    /\ ~OI[i].hasfit
    /\ OI' = [OI EXCEPT ![i].hasfit = TRUE, ![i].fit = fit]
    /\ ret' = Ret("fit", "ok", None, 0, 0, <<i>>, <<>>, <<>>)
    /\ UNCHANGED <<res, disk, kept>>

NextConflict ==
    \/ \E i \in 1..MaxOI, fit \in ConflictFits : Attach(i, fit)
    \/ \E collapse \in BOOLEAN, ho \in HashOrders : Merge(collapse, ho)

SpecConflict == InitConflict /\ [][NextConflict]_vars

\* the table after _filtErr returned: line 1156 works on a copy of the column
filtErrExt(t, ext, filt) == ext

\* one table of one row and two channels holding observable t
FiltTable(t, v, e, fl) ==
    [ks |-> <<t, EName(t), "FLAG">>,
     f  |-> (t :> <<v>>) @@ (EName(t) :> <<e>>) @@ ("FLAG" :> <<fl>>)]

FiltTables ==
    { FiltTable(t, v, e, fl) :
        t \in {"V2", "FLUX", "PHI"}, v \in {<<100, -40>>, <<NaN, 20>>},
        e \in {<<4, 30>>, <<NaN, 10>>, <<10, 5>>},
        fl \in {<<FALSE, FALSE>>, <<TRUE, FALSE>>} }

\* what a rule of the 'fit' dict may hold, in a set (empty: not configured)
ErrRules(x) == {{}, {"V2" :> x}, {"FLUX" :> x}}

MaxErrRules ==
    ErrRules(10) \cup {{"NFLUX" :> 1}, {("NFLUX" :> 1) @@ ("FLUX" :> 10)},
                      {"PHI" :> 10}, {"DPHI" :> 10}, {("DPHI" :> 4) @@ ("PHI" :> 10)}}

FiltOf(mu, mi, mr, xe, xr) ==
    LET o == ("mult error" :> mu) @@ ("min error" :> mi) @@ ("min relative error" :> mr)
             @@ ("max error" :> xe) @@ ("max relative error" :> xr)
    IN [r \in {q \in DOMAIN o : o[q] # {}} |-> CHOOSE x \in o[r] : TRUE]

FiltFits ==
    { FiltOf(mu, mi, mr, xe, xr) :
        mu \in ErrRules(2), mi \in ErrRules(10), mr \in ErrRules(25),
        xe \in MaxErrRules, xr \in ErrRules(25) }

\* one table and one 'fit' dict at hand, and the two filters called on them
InitFilt ==
    /\ OI \in { <<[ext |-> e, fit |-> f]>> : e \in FiltTables, f \in FiltFits }
    /\ res = <<>>
    /\ ret = Ret("init", "ok", None, 0, 0, <<>>, <<>>, <<>>)
    /\ disk = <<>>
    /\ kept = <<>>

\* err = _filtErr(t, ext, filt)
FiltErrCall(t) ==
    /\ Has(OI[1].ext, t) /\ EName(t) # None /\ Has(OI[1].ext, EName(t))
    /\ ret' = Ret("_filtErr", "ok", None, 0, 0, <<t>>, <<OI[1].ext, OI[1].fit>>,
                  <<filtErr(t, OI[1].ext, OI[1].fit)>>)
    /\ OI' = <<[ext |-> filtErrExt(t, OI[1].ext, OI[1].fit), fit |-> OI[1].fit]>>
    /\ UNCHANGED <<res, disk, kept>>

\* flag = _filtFlag(ext, filt)
FiltFlagCall ==
    /\ Has(OI[1].ext, "FLAG")
    /\ ret' = Ret("_filtFlag", "ok", None, 0, 0, <<>>, <<OI[1].ext, OI[1].fit>>,
                  <<filtFlag(OI[1].ext, OI[1].fit)>>)
    /\ OI' = <<[ext |-> OI[1].ext, fit |-> filtFlagFilt(OI[1].ext, OI[1].fit)]>>
    /\ UNCHANGED <<res, disk, kept>>

NextFilt ==
    \/ \E t \in {"V2", "FLUX", "PHI"} : FiltErrCall(t)
    \/ FiltFlagCall

SpecFilt == InitFilt /\ [][NextFilt]_vars

(***************************************************************************)
(* The properties                                                          *)
(***************************************************************************)
\* the fields that hold one row of len(WL) samples per epoch, and those that
\* hold one value per epoch
TwoD == {"V2", "EV2", "|V|", "E|V|", "PHI", "EPHI", "T3AMP", "ET3AMP", "T3PHI", "ET3PHI",
         "FLUX", "EFLUX", "RFLUX", "FLAG", "u/wl", "v/wl", "B/wl", "PA", "Bmax/wl", "Bavg/wl"}

OneD == {"MJD", "u", "v", "u1", "v1", "u2", "v2", "B1", "B2", "B3"}

\* the table t has the shapes of a table of rows epochs over nw channels
ShapeOK(t, rows, nw) ==
    \A k \in Range(t.ks) :
        /\ k \in TwoD => Len(t.f[k]) = rows /\ \A i \in 1..Len(t.f[k]) : Len(t.f[k][i]) = nw
        /\ k \in OneD => Len(t.f[k]) = rows

ShapesOK(ds) ==
    \A c \in Range(ds.tabs.ks) : \A k \in Range(ds.tabs.f[c].ks) :
        Has(ds.tabs.f[c].f[k], "MJD") =>
            ShapeOK(ds.tabs.f[c].f[k], Len(ds.tabs.f[c].f[k].f["MJD"]), Len(ds.WL))

\* C1: after loadOI, mergeOI and _allInOneOI every 2D field of every table has
\* the shape (rows, len(WL)) and every 1D field the length rows, rows being
\* the length of the table's MJD
C1_Shapes ==
    /\ LoadedOK => \A i \in 1..Len(ret.out) : ShapesOK(ret.out[i])
    /\ MergedOK => \A i \in 1..Len(res) : ShapesOK(res[i])
    /\ CollapsedOK => ShapesOK(res[ret.args[1]])

\* the formula fm of a triangle of n epochs is complete in the dataset ds
FormulaOK(ds, fm, n) ==
    /\ Len(fm) = 5
    /\ \A x \in 3..5 : Len(fm[x]) = n
    /\ \/ Has(ds.tabs, "OI_VIS") /\ \A x \in 1..3 : Has(ds.tabs.f["OI_VIS"], fm[2][x])
       \/ Has(ds.tabs, "OI_VIS2") /\ \A x \in 1..3 : Has(ds.tabs.f["OI_VIS2"], fm[2][x])

FormulasOK(ds) ==
    Has(ds.tabs, "OI_T3") =>
        \A k \in Range(ds.tabs.f["OI_T3"].ks) :
            FormulaOK(ds, ds.tabs.f["OI_T3"].f[k].f["formula"],
                      Len(ds.tabs.f["OI_T3"].f[k].f["MJD"]))

\* C2: for every triangle of a dataset returned by loadOI or by mergeOI, the
\* three row-index sequences of the formula have the length of the triangle's
\* MJD, and the three baseline names of the formula are keys of tables of
\* OI_VIS, else of OI_VIS2
C2_Formula ==
    /\ LoadedOK => \A i \in 1..Len(ret.out) : FormulasOK(ret.out[i])
    /\ MergedOK => \A i \in 1..Len(res) : FormulasOK(res[i])

\* mergeOI returned a dataset merged from two inputs, with a triangle of two
\* epochs or more and a formula that indexes them
C2_Witness ==
    /\ MergedOK
    /\ Len(ret.pre) = 2
    /\ \E i \in 1..Len(res) :
          /\ Has(res[i].tabs, "OI_T3")
          /\ \E k \in Range(res[i].tabs.f["OI_T3"].ks) :
                /\ Len(res[i].tabs.f["OI_T3"].f[k].f["MJD"]) >= 2
                /\ Len(res[i].tabs.f["OI_T3"].f[k].f["formula"][3]) >= 2

\* the rows the file holds for table k of category c of the dataset ds loaded
\* from it, in the order of the file
FileRows(file, ds, c, k) ==
    Flatten([h \in 1..Len(file.hdus) |->
        IF file.hdus[h].ext = c /\ file.hdus[h].insname = ds.insname
        THEN SelectSeq(file.hdus[h].rows,
                       LAMBDA r : Flatten(r.sta) = k /\ r.targ \in TargetIds(file, ds.targname))
        ELSE <<>>])

\* the channel of the grid wl that is nearest to the channel j of the grid WL0
Cover(WL0, wl, j) ==
    CHOOSE i \in 1..Len(wl) :
        \A x \in 1..Len(wl) :
            \/ Abs(wl[i] - WL0[j]) < Abs(wl[x] - WL0[j])
            \/ Abs(wl[i] - WL0[j]) = Abs(wl[x] - WL0[j]) /\ i <= x

\* a sample the file flags is flagged in the dataset loaded from it
LoadKeepsFlags(file, ds) ==
    \A c \in Range(ds.tabs.ks) : \A k \in Range(ds.tabs.f[c].ks) :
        \A r \in 1..Len(FileRows(file, ds, c, k)) : \A j \in 1..Len(RawWL(file, ds.insname)) :
            FileRows(file, ds, c, k)[r].flag[j] =>
                /\ r <= Len(ds.tabs.f[c].f[k].f["FLAG"])
                /\ ds.tabs.f[c].f[k].f["FLAG"][r][Cover(RawWL(file, ds.insname), ds.WL, j)]

\* the output of mergeOI the input i went to, and the rows of table k of
\* category c the inputs before i brought to it
GroupOf(pre, i) ==
    Cardinality({Setup(pre[x]) : x \in 1..IndexOf([y \in 1..i |-> Setup(pre[y])], Setup(pre[i]))})

RowsBefore(pre, i, c, k) ==
    SumSeq([x \in 1..(i-1) |->
        IF Setup(pre[x]) = Setup(pre[i]) /\ Has(pre[x].tabs, c) /\ Has(pre[x].tabs.f[c], k)
        THEN Len(pre[x].tabs.f[c].f[k].f["MJD"]) ELSE 0])

\* a sample an input flags is flagged in the merged dataset
MergeKeepsFlags(pre, out) ==
    \A i \in 1..Len(pre) : \A c \in Range(pre[i].tabs.ks) :
        \A k \in Range(pre[i].tabs.f[c].ks) :
            \A r \in 1..Len(pre[i].tabs.f[c].f[k].f["FLAG"]) :
                \A j \in 1..Len(pre[i].tabs.f[c].f[k].f["FLAG"][r]) :
                    pre[i].tabs.f[c].f[k].f["FLAG"][r][j] =>
                        /\ GroupOf(pre, i) <= Len(out)
                        /\ Has(out[GroupOf(pre, i)].tabs, c)
                        /\ Has(out[GroupOf(pre, i)].tabs.f[c], k)
                        /\ RowsBefore(pre, i, c, k) + r
                               <= Len(out[GroupOf(pre, i)].tabs.f[c].f[k].f["FLAG"])
                        /\ out[GroupOf(pre, i)].tabs.f[c].f[k].f["FLAG"]
                              [RowsBefore(pre, i, c, k) + r][j]

Rebinned == ret.args[1].binning # 0

\* C3 as stated: a flag that is true is never set back to false, neither by
\* the non-finite check of the accumulation nor by the rebinning at ingest
\* (the binned channel that covers a flagged channel is flagged), nor by the
\* error filters, the concatenation and the VIS/VIS2 reconciliation of mergeOI
C3_FlagsKept ==
    /\ (ret.op = "loadOI" /\ ret.st = "ok") =>
           \A i \in 1..Len(ret.out) : LoadKeepsFlags(disk[ret.args[1].file], ret.out[i])
    /\ MergedOK => MergeKeepsFlags(ret.pre, res)

\* C3 as amended: the same but for the rebinning, whose mask is a weighted
\* majority of the flags of the raw channels
C3_FlagsKeptUnbinned ==
    /\ (ret.op = "loadOI" /\ ret.st = "ok" /\ ~Rebinned) =>
           \A i \in 1..Len(ret.out) : LoadKeepsFlags(disk[ret.args[1].file], ret.out[i])
    /\ MergedOK => MergeKeepsFlags(ret.pre, res)

\* mergeOI merged two datasets of one setup, the one that carries a 'fit' with
\* a 'max error' rule holding a flagged sample
C3_Witness ==
    /\ MergedOK
    /\ Len(ret.pre) = 2 /\ Len(res) = 1
    /\ \E i \in 1..2 :
          /\ ret.pre[i].hasfit
          /\ "max error" \in DOMAIN ret.pre[i].fit
          /\ \E c \in Range(ret.pre[i].tabs.ks) : \E k \in Range(ret.pre[i].tabs.f[c].ks) :
                \E r \in 1..Len(ret.pre[i].tabs.f[c].f[k].f["FLAG"]) :
                    TRUE \in Range(ret.pre[i].tabs.f[c].f[k].f["FLAG"][r])

\* row r of the baseline table t is a fabricated one: no signal, fully flagged
FabRow(t, r) ==
    /\ \A j \in 1..Len(t.f["FLAG"][r]) : t.f["FLAG"][r][j]
    /\ \/ Has(t, "V2") /\ \A j \in 1..Len(t.f["V2"][r]) : t.f["V2"][r][j] = 0
       \/ Has(t, "|V|") /\ \A j \in 1..Len(t.f["|V|"][r]) : t.f["|V|"][r][j] = 0

Fabricated(t) == t.f["MJD"] # <<>> /\ \A r \in 1..Len(t.f["MJD"]) : FabRow(t, r)

Measured(t) == t.f["MJD"] # <<>> /\ \A r \in 1..Len(t.f["MJD"]) : ~FabRow(t, r)

HasTable(ds, c, k) == Has(ds.tabs, c) /\ Has(ds.tabs.f[c], k)

\* the baselines of category c that one of the two inputs of one setup
\* fabricated and the other measured
FabAndReal(pre, c) ==
    IF Len(pre) # 2 THEN {}
    ELSE IF Setup(pre[1]) # Setup(pre[2]) \/ ~Has(pre[1].tabs, c) THEN {}
    ELSE {k \in Range(pre[1].tabs.f[c].ks) :
             /\ HasTable(pre[2], c, k)
             /\ \E i \in 1..2 : /\ Fabricated(pre[i].tabs.f[c].f[k])
                                /\ Measured(pre[3-i].tabs.f[c].f[k])}

\* the rows of baseline k the formulas of the triangles of ds point at
LegRows(ds, k) ==
    IF ~Has(ds.tabs, "OI_T3") THEN {}
    ELSE UNION {UNION {IF ds.tabs.f["OI_T3"].f[t].f["formula"][2][x] = k
                       THEN {w + 1 : w \in Range(ds.tabs.f["OI_T3"].f[t].f["formula"][x + 2])}
                       ELSE {} : x \in 1..3} : t \in Range(ds.tabs.f["OI_T3"].ks)}

\* C4: after mergeOI of two datasets of one setup, a baseline that one input
\* fabricated and the other measured holds the measured rows and no
\* fabricated row, and the triangle formulas point at measured rows of it
C4_RealRows ==
    (MergedOK /\ ret.args[1] = FALSE) =>
        \A c \in {"OI_VIS", "OI_VIS2"} : \A k \in FabAndReal(ret.pre, c) :
            /\ HasTable(res[1], c, k)
            /\ Measured(res[1].tabs.f[c].f[k])
            /\ \A r \in LegRows(res[1], k) :
                  /\ r \in 1..Len(res[1].tabs.f[c].f[k].f["MJD"])
                  /\ ~FabRow(res[1].tabs.f[c].f[k], r)

\* row r of the table t: the value of every field that holds one entry per row
RowAt(t, r) ==
    [k \in {x \in Range(t.ks) : x \in OneD \cup TwoD} |->
        IF r <= Len(t.f[k]) THEN t.f[k][r] ELSE None]

\* the tables t and u hold the same rows, as unordered collections
SameRows(t, u) ==
    /\ Len(t.f["MJD"]) = Len(u.f["MJD"])
    /\ \A r \in 1..Len(t.f["MJD"]) :
          Cardinality({x \in 1..Len(t.f["MJD"]) : RowAt(t, x) = RowAt(t, r)}) =
          Cardinality({x \in 1..Len(u.f["MJD"]) : RowAt(u, x) = RowAt(t, r)})

\* the datasets a and b hold the same tables, with the same rows
SameTables(a, b) ==
    /\ Range(a.tabs.ks) = Range(b.tabs.ks)
    /\ \A c \in Range(a.tabs.ks) :
          /\ Range(a.tabs.f[c].ks) = Range(b.tabs.f[c].ks)
          /\ \A k \in Range(a.tabs.f[c].ks) : SameRows(a.tabs.f[c].f[k], b.tabs.f[c].f[k])

\* C5: for three datasets A, B, C of one setup that mergeOI([A, B, C]) merged
\* into res, mergeOI([A, B]) and then mergeOI of its result with C return, and
\* return the same rows for every baseline and triangle name
C5_Associative ==
    /\ ret.op \in {"mergeFirst", "mergeRest"} => ret.st = "ok"
    /\ ret.op = "mergeRest" =>
          /\ Len(kept) = Len(res)
          /\ \A i \in 1..Len(res) : SameTables(res[i], kept[i])

\* the dataset ds is a collapsed one: every category holds the table 'all'
\* alone, and the lists name it
IsCollapsed(ds) ==
    /\ \A c \in Range(ds.tabs.ks) : Range(ds.tabs.f[c].ks) = {ALL}
    /\ ds.baselines = <<ALL>>

\* C6: _allInOneOI of a dataset that is collapsed already returns, and the
\* dataset holds the same tables as before: same fields, same rows, same NAME
\* and same formula
C6_Idempotent ==
    (ret.op = "allInOneOI" /\ IsCollapsed(ret.pre[1])) =>
        /\ ret.st = "ok"
        /\ res[ret.args[1]].tabs = ret.pre[1].tabs

\* the datasets loadOI returns for the file f alone, none when it raises
AloneOf(f, ho) == loadOI(disk[f], None, None, 0, <<>>, ho).ds

\* C7: loadOI of a list of files returns the datasets of the files that load,
\* whatever the fatal errors of the other files of the list
C7_Isolation ==
    ret.op = "loadOIlist" =>
        /\ ret.st # "raise"
        /\ ret.out = Flatten([i \in 1..Len(ret.args[1]) |->
                                 AloneOf(ret.args[1][i], ret.args[2])])

\* C8: when loadOI of one file leaves, by the return of a dataset, by the
\* return of a list per instrument or by an exception, every handle it
\* opened is closed
C8_Closed ==
    ret.op = "loadOI" => ret.closed = ret.opened

\* C9: mergeOI leaves its inputs as they were (tables, 'configurations per
\* MJD' and 'fit'), and no list of a dataset it returns is a list of an input
C9_InputsKept ==
    ret.op = "mergeOI" =>
        /\ OI = ret.pre
        /\ \A i \in 1..Len(res) : res[i].shared = {}

\* the signature of a dataset: its instrument name and its wavelength grid
Signature(ds) == <<ds.insname, ds.WL>>

\* the inputs that are the first of their signature, in input order
Firsts(pre) ==
    SelectSeq([i \in 1..Len(pre) |-> i],
              LAMBDA i : \A x \in 1..(i-1) : Signature(pre[x]) # Signature(pre[i]))

\* the file names of the inputs of the signature of input i, in input order
NamesOf(pre, i) ==
    Flatten([x \in 1..Len(pre) |->
                IF Signature(pre[x]) = Signature(pre[i]) THEN pre[x].filename ELSE <<>>])

\* C10: mergeOI returns one dataset per signature of its inputs, in the order
\* of the first input of each, so that two inputs are merged if and only if
\* they have the instrument name and the wavelength grid in common, and the
\* filename of an output joins those of its inputs in input order
C10_Groups ==
    MergedOK =>
        /\ Len(res) = Len(Firsts(ret.pre))
        /\ \A g \in 1..Len(res) :
              g <= Len(Firsts(ret.pre)) =>
                  /\ Signature(res[g]) = Signature(ret.pre[Firsts(ret.pre)[g]])
                  /\ res[g].filename = NamesOf(ret.pre, Firsts(ret.pre)[g])

\* the extensions of instrument inm that hold no row of the targets ids
Empty(h, inm, ids) ==
    /\ h.insname = inm
    /\ h.ext \in {"OI_FLUX", "OI_VIS2", "OI_VIS", "OI_T3"}
    /\ \A i \in 1..Len(h.rows) : ~(h.rows[i].targ \in ids)

\* the file without them
Stripped(file, inm, ids) ==
    [file EXCEPT !.hdus = SelectSeq(@, LAMBDA h : ~Empty(h, inm, ids))]

\* the call the session made last: one file, its instrument and target resolved
CallFile == disk[ret.args[1].file]

CallIns == InsOf(CallFile, ret.args[1].insname)

CallTarg == TargOf(CallFile, ret.args[1].targname)

CallResolved ==
    /\ ret.op = "loadOI"
    /\ CallIns \in Range(Instruments(CallFile))
    /\ CallTarg \in Range(TargetNames(CallFile))

\* C11: when an extension of the selected instrument holds no row of the
\* resolved target, loadOI returns, and returns the dataset of the other
\* extensions, also when no squared-visibility or visibility extension is left
C11_ZeroRowsSkipped ==
    (/\ CallResolved
     /\ \E i \in 1..Len(CallFile.hdus) :
           Empty(CallFile.hdus[i], CallIns, TargetIds(CallFile, CallTarg)))
    => /\ ret.st = "ok"
       /\ Len(ret.out) = 1
       /\ LET alone == loadOI(Stripped(CallFile, CallIns, TargetIds(CallFile, CallTarg)),
                              CallIns, CallTarg, ret.args[1].binning, <<>>, ret.args[2])
          IN alone.st = "ok" => alone.ds = ret.out

\* the rows of table k of category c that the inputs of output g hold together
GroupRows(pre, g, c, k) ==
    SumSeq([x \in 1..Len(pre) |->
        IF GroupOf(pre, x) = g /\ Has(pre[x].tabs, c) /\ Has(pre[x].tabs.f[c], k)
        THEN Len(pre[x].tabs.f[c].f[k].f["MJD"]) ELSE 0])

\* the fields of table t that hold one entry per row
RowFields(t) == {f \in Range(t.ks) : f \in TwoD \cup OneD}

\* the output the input i went to holds every table of i, with every field of
\* it, and at least the rows that the inputs of that output hold together
Grown(pre, out, i) ==
    /\ GroupOf(pre, i) <= Len(out)
    /\ \A c \in Range(pre[i].tabs.ks) :
          /\ Has(out[GroupOf(pre, i)].tabs, c)
          /\ \A k \in Range(pre[i].tabs.f[c].ks) :
                /\ Has(out[GroupOf(pre, i)].tabs.f[c], k)
                /\ \A f \in RowFields(pre[i].tabs.f[c].f[k]) :
                      /\ Has(out[GroupOf(pre, i)].tabs.f[c].f[k], f)
                      /\ Len(out[GroupOf(pre, i)].tabs.f[c].f[k].f[f])
                            >= GroupRows(pre, GroupOf(pre, i), c, k)

\* C12: mergeOI without collapse only grows the tables: every table of an
\* input (the triangle tables too) is in the merged dataset of its signature,
\* with no fewer rows than the inputs of that signature brought
C12_TablesGrow ==
    (MergedOK /\ ret.args[1] = FALSE) => \A i \in 1..Len(ret.pre) : Grown(ret.pre, res, i)

\* two inputs of one signature were merged, both holding the same triangle
\* and the same baselines
C12_Witness ==
    /\ MergedOK /\ ret.args[1] = FALSE
    /\ Len(ret.pre) = 2 /\ Len(res) = 1
    /\ \A i \in 1..2 : Has(ret.pre[i].tabs, "OI_T3") /\ Has(ret.pre[i].tabs, "OI_VIS2")
    /\ \E k \in Range(ret.pre[1].tabs.f["OI_T3"].ks) : Has(ret.pre[2].tabs.f["OI_T3"], k)
    /\ \E k \in Range(ret.pre[1].tabs.f["OI_VIS2"].ks) :
          /\ Has(ret.pre[2].tabs.f["OI_VIS2"], k)
          /\ Len(res[1].tabs.f["OI_VIS2"].f[k].f["MJD"]) >= 2

\* the triangle scan of the last call: the tables and the ledger M as lines
\* 163-534 leave them
CallParams == Params(CallFile, CallIns, CallTarg, ret.args[1].binning, ret.args[2])

Scan == LoadT3HDUs(CallFile, CallIns, LoadVisHDUs(CallFile, CallIns, CallParams), CallParams)

\* the name of the same station pair in the other orientation
Swap(k) == SubSeq(k, Len(k) \div 2 + 1, Len(k)) \o SubSeq(k, 1, Len(k) \div 2)

\* the three forward names of triangle k: stations 1-2, 2-3, 3-1
Forward(k) ==
    <<SubSeq(k, 1, 2 * (Len(k) \div 3)),
      SubSeq(k, Len(k) \div 3 + 1, Len(k)),
      SubSeq(k, 2 * (Len(k) \div 3) + 1, Len(k)) \o SubSeq(k, 1, Len(k) \div 3)>>

\* every leg of every triangle is the forward name with sign +1 or the
\* reverse name with sign -1
LegsNamed(T3) ==
    \A k \in Range(T3.ks) : \A j \in 1..3 :
        \/ T3.f[k].f["formula"][2][j] = Forward(k)[j] /\ T3.f[k].f["formula"][1][j] = 1
        \/ T3.f[k].f["formula"][2][j] = Swap(Forward(k)[j]) /\ T3.f[k].f["formula"][1][j] = -1

\* C13: the scan uses the forward or the reverse name of a leg when one of
\* them is known or in the ledger M and adds the forward name to M otherwise,
\* so M holds no name twice and never both orientations of one station pair
C13_Ledger ==
    (CallResolved /\ Scan.st = "ok") =>
        /\ LegsNamed(Scan.tabs["OI_T3"])
        /\ \A i, j \in 1..Len(Scan.M) : i # j => Scan.M[i] # Scan.M[j]
        /\ \A i, j \in 1..Len(Scan.M) : Scan.M[i] # Swap(Scan.M[j])

\* the observables of the category key
ObsOf(key) == IF key = "OI_VIS" THEN {"|V|", "PHI"} ELSE {"V2"}

\* every row of the table t is zero signal, unit error, flagged in every channel
ZeroUnit(t, key, nw) ==
    /\ t.f["FLAG"] = Rep(Len(t.f["MJD"]), Rep(nw, TRUE))
    /\ \A o \in ObsOf(key) :
          /\ Has(t, o) /\ t.f[o] = Rep(Len(t.f["MJD"]), Rep(nw, 0))
          /\ Has(t, EName(o)) /\ t.f[EName(o)] = Rep(Len(t.f["MJD"]), Rep(nw, 1))

\* the triangles of the dataset ds whose formula names the baseline m
Referring(ds, m) ==
    IF Has(ds.tabs, "OI_T3")
    THEN {k \in Range(ds.tabs.f["OI_T3"].ks) : m \in Range(ds.tabs.f["OI_T3"].f[k].f["formula"][2])}
    ELSE {}

\* the dataset the last call returned
CallOut == ret.out[1]

CallLoaded == CallResolved /\ ret.st = "ok" /\ Len(ret.out) = 1

\* C14 as stated: every name of the ledger has its table in the category the
\* closures are resolved against, all zeros, unit errors and flags, and its
\* epochs hold the epochs of every triangle that refers to it
C14_Fabricated ==
    CallLoaded =>
        \A m \in Range(Scan.M) :
            /\ HasTable(CallOut, KeyOf(Scan), m)
            /\ ZeroUnit(CallOut.tabs.f[KeyOf(Scan)].f[m], KeyOf(Scan), Len(CallOut.WL))
            /\ \A k \in Referring(CallOut, m) :
                  Range(CallOut.tabs.f["OI_T3"].f[k].f["MJD"])
                      \subseteq Range(CallOut.tabs.f[KeyOf(Scan)].f[m].f["MJD"])

\* C14 as amended: the same for the names of the ledger that a triangle table
\* of the dataset refers to, every epoch of such a triangle being within the
\* alignment tolerance of an epoch of the table
C14_FabricatedReferred ==
    CallLoaded =>
        \A m \in Range(Scan.M) : Referring(CallOut, m) # {} =>
            /\ HasTable(CallOut, KeyOf(Scan), m)
            /\ ZeroUnit(CallOut.tabs.f[KeyOf(Scan)].f[m], KeyOf(Scan), Len(CallOut.WL))
            /\ \A k \in Referring(CallOut, m) :
                  \A e \in Range(CallOut.tabs.f["OI_T3"].f[k].f["MJD"]) :
                      \E x \in Range(CallOut.tabs.f[KeyOf(Scan)].f[m].f["MJD"]) :
                          Abs(x - e) < Tol

\* a name of the ledger that two triangles of different epochs refer to, its
\* table holding a row for each
C14_Witness ==
    /\ CallLoaded
    /\ \E m \in Range(Scan.M) :
          /\ Cardinality(Referring(CallOut, m)) >= 2
          /\ HasTable(CallOut, KeyOf(Scan), m)
          /\ Len(CallOut.tabs.f[KeyOf(Scan)].f[m].f["MJD"]) >= 2

\* the coordinates (u, v) of leg j (1, 2, 3) of row i of the triangle table T,
\* with the sign of the leg applied
LegU(T, i, j) ==
    T.f["formula"][1][j] * (CASE j = 1 -> T.f["u1"][i]
                              [] j = 2 -> T.f["u2"][i]
                              [] OTHER -> -(T.f["u1"][i] + T.f["u2"][i]))

LegV(T, i, j) ==
    T.f["formula"][1][j] * (CASE j = 1 -> T.f["v1"][i]
                              [] j = 2 -> T.f["v2"][i]
                              [] OTHER -> -(T.f["v1"][i] + T.f["v2"][i]))

\* row r (0-based) of the baseline table b holds the coordinates of that leg,
\* and the same coordinates over the wavelengths (kept as their numerators)
LegCoords(b, r, T, i, j, nw) ==
    /\ b.f["u"][r + 1] = LegU(T, i, j)
    /\ b.f["v"][r + 1] = LegV(T, i, j)
    /\ b.f["u/wl"][r + 1] = Rep(nw, LegU(T, i, j))
    /\ b.f["v/wl"][r + 1] = Rep(nw, LegV(T, i, j))

\* the baseline table that leg j of triangle k of the dataset ds points into
LegTable(ds, key, k, j) == ds.tabs.f[key].f[ds.tabs.f["OI_T3"].f[k].f["formula"][2][j]]

\* C15: a fabricated row (of a fabricated table or a placeholder appended to a
\* table) that a leg of a triangle row points at holds the coordinates of that
\* leg with its sign: s*(u1, v1), s*(u2, v2) or s*(-(u1+u2), -(v1+v2)), and
\* u/wl and v/wl hold the same u and v over the wavelengths
C15_LegCoords ==
    (CallLoaded /\ Has(CallOut.tabs, "OI_T3")) =>
        \A k \in Range(CallOut.tabs.f["OI_T3"].ks) : \A j \in 1..3 :
            \A i \in 1..Len(CallOut.tabs.f["OI_T3"].f[k].f["MJD"]) :
                FabRow(LegTable(CallOut, KeyOf(Scan), k, j),
                       CallOut.tabs.f["OI_T3"].f[k].f["formula"][2 + j][i] + 1)
                => LegCoords(LegTable(CallOut, KeyOf(Scan), k, j),
                             CallOut.tabs.f["OI_T3"].f[k].f["formula"][2 + j][i],
                             CallOut.tabs.f["OI_T3"].f[k], i, j, Len(CallOut.WL))

\* the triangles of the last call's dataset, in the order the code visits them
Triangles == IF Has(CallOut.tabs, "OI_T3") THEN CallOut.tabs.f["OI_T3"].ks ELSE <<>>

TriangleT(k) == CallOut.tabs.f["OI_T3"].f[k]

\* the baseline n is one that lines 553-588 fabricate
IsMissing(n) == n \in Range(Scan.M) /\ Referring(CallOut, n) # {}

\* the epochs of the table of baseline n when the alignment starts on it: those
\* read from the file, or for a fabricated table those of the first triangle
\* that refers to it
EpochsBefore(n) ==
    IF IsMissing(n)
    THEN TriangleT(SelectSeq(Triangles, LAMBDA k : k \in Referring(CallOut, n))[1]).f["MJD"]
    ELSE Scan.tabs[KeyOf(Scan)].f[n].f["MJD"]

\* row r of table b is a placeholder: zero signal, unit error, flagged in every
\* channel
PlaceholderRow(b, key, nw, r) ==
    /\ b.f["FLAG"][r] = Rep(nw, TRUE)
    /\ \A o \in ObsOf(key) : b.f[o][r] = Rep(nw, 0) /\ b.f[EName(o)][r] = Rep(nw, 1)

\* the legs <<k, i, j>> whose formula index is the row r (1-based) of baseline n
PointingAt(n, r) ==
    {x \in {<<k, i, j>> : k \in Range(Triangles), i \in 1..4, j \in 1..3} :
        /\ x[2] <= Len(TriangleT(x[1]).f["MJD"])
        /\ TriangleT(x[1]).f["formula"][2][x[3]] = n
        /\ TriangleT(x[1]).f["formula"][2 + x[3]][x[2]] = r - 1}

\* the table b of baseline n is the table the alignment started on, its rows
\* as they were, followed by placeholder rows, each appended for the epoch of a
\* leg that no earlier row was within the tolerance of
AlignedTable(n, b, key, nw) ==
    /\ Len(b.f["MJD"]) >= Len(EpochsBefore(n))
    /\ SubSeq(b.f["MJD"], 1, Len(EpochsBefore(n))) = EpochsBefore(n)
    /\ ~IsMissing(n) =>
          \A f \in {"FLAG", "u", "v"} \cup ObsOf(key) \cup {EName(o) : o \in ObsOf(key)} :
              SubSeq(b.f[f], 1, Len(EpochsBefore(n))) = Scan.tabs[key].f[n].f[f]
    /\ \A r \in (Len(EpochsBefore(n)) + 1)..Len(b.f["MJD"]) :
          /\ PlaceholderRow(b, key, nw, r)
          /\ \A q \in 1..(r - 1) : Abs(b.f["MJD"][q] - b.f["MJD"][r]) >= Tol
          /\ \E x \in PointingAt(n, r) : TriangleT(x[1]).f["MJD"][x[2]] = b.f["MJD"][r]

FiltErrDone == ret.op = "_filtErr"

\* the factor of observable t, 1 when none is configured
Factor(filt, t) == IF Rule(filt, "mult error", t) THEN filt["mult error"][t] ELSE 1

\* the values the error of sample (i, j) is the largest of
Candidates(t, ext, filt, i, j) ==
    {Mul(Factor(filt, t), ext.f[EName(t)][i][j])}
    \cup (IF Rule(filt, "min error", t) THEN {filt["min error"][t]} ELSE {})
    \cup (IF Rule(filt, "min relative error", t)
          THEN {Pct(filt["min relative error"][t], FAbs(ext.f[t][i][j]))} ELSE {})

\* x is the largest of cand, not a number when one of them is not
LargestOf(x, cand) ==
    IF NaN \in cand THEN x = NaN
    ELSE x \in cand /\ \A c \in cand : x >= c

\* C17: _filtErr returns for every sample the largest of the multiplied
\* error (factor 1 when none is configured), the configured floor and the
\* configured fraction of |value|, so it is never below the multiplied
\* error, and the error column of the table is as it was before the call
C17_FiltErrMax ==
    FiltErrDone =>
        LET t    == ret.args[1]
            ext  == ret.pre[1]
            filt == ret.pre[2]
            out  == ret.out[1]
            e    == ext.f[EName(t)]
        IN /\ Len(out) = Len(e)
           /\ \A i \in 1..Len(e) :
                /\ Len(out[i]) = Len(e[i])
                /\ \A j \in 1..Len(e[i]) :
                     /\ LargestOf(out[i][j], Candidates(t, ext, filt, i, j))
                     /\ ~(out[i][j] # NaN /\ Mul(Factor(filt, t), e[i][j]) # NaN
                          /\ out[i][j] < Mul(Factor(filt, t), e[i][j]))
           /\ OI[1].ext = ext

\* a call with a factor and a floor, the floor winning on one sample and the
\* multiplied error on another
C17_Witness ==
    /\ FiltErrDone
    /\ Rule(ret.pre[2], "mult error", ret.args[1])
    /\ Rule(ret.pre[2], "min error", ret.args[1])
    /\ \E j \in 1..2 : /\ ret.out[1][1][j] = ret.pre[2]["min error"][ret.args[1]]
                       /\ ret.out[1][1][j] > 2 * ret.pre[1].f[EName(ret.args[1])][1][j]
    /\ \E j \in 1..2 : /\ ret.out[1][1][j] = 2 * ret.pre[1].f[EName(ret.args[1])][1][j]
                       /\ ret.out[1][1][j] > ret.pre[2]["min error"][ret.args[1]]
(***************************************************************************)
(* _filtFlag                                                               *)
(***************************************************************************)
FiltFlagDone == ret.op = "_filtFlag"

\* some observable with an entry in ceil and an error column in ext has its
\* error of sample (i, j) at or above the entry
AboveCeiling(ext, ceil, i, j) ==
    \E k \in DOMAIN ceil :
        /\ EName(k) # None /\ Has(ext, EName(k))
        /\ FGe(ext.f[EName(k)][i][j], ceil[k])

\* the same with the entries taken as fractions of |value|
AboveFraction(ext, frac, i, j) ==
    \E k \in DOMAIN frac :
        /\ EName(k) # None /\ Has(ext, EName(k))
        /\ FGe(ext.f[EName(k)][i][j], Pct(frac[k], FAbs(ext.f[k][i][j])))

RuleOf(filt, rule) == IF rule \in DOMAIN filt THEN filt[rule] ELSE <<>>

\* the mask: FLAG or one of the two rules, with the ceilings ceil
MaskIs(out, ext, filt, ceil) ==
    LET F == ext.f["FLAG"]
    IN /\ Len(out) = Len(F)
       /\ \A i \in 1..Len(F) :
            /\ Len(out[i]) = Len(F[i])
            /\ \A j \in 1..Len(F[i]) :
                 out[i][j] <=> \/ F[i][j]
                               \/ AboveCeiling(ext, ceil, i, j)
                               \/ AboveFraction(ext, RuleOf(filt, "max relative error"), i, j)
       /\ ("max error" \notin DOMAIN filt /\ "max relative error" \notin DOMAIN filt
             => out = F)

\* C18: _filtFlag flags a sample if and only if FLAG has it flagged, or an
\* observable configured under 'max error' with an error column in the
\* table has its error at or above the configured ceiling, or one configured
\* under 'max relative error' has its error at or above fraction*|value|;
\* with neither rule configured the mask is FLAG
C18_FlagIff ==
    FiltFlagDone =>
        MaskIs(ret.out[1], ret.pre[1], ret.pre[2], RuleOf(ret.pre[2], "max error"))

\* the ceilings in force for table ext: a configured NFLUX ceiling makes,
\* for a table holding FLUX, a FLUX ceiling of NFLUX*mean(FLUX)
Ceilings(ext, filt) ==
    LET c == RuleOf(filt, "max error")
    IN IF "max error" \in DOMAIN filt /\ "NFLUX" \in DOMAIN c /\ Has(ext, "FLUX")
       THEN ("FLUX" :> Mul(c["NFLUX"], Mean2(ext.f["FLUX"]))) @@ c
       ELSE c

\* C18 (amended): the same, the ceilings being the configured ones except
\* that for a table holding FLUX a configured NFLUX ceiling stands for a
\* FLUX ceiling of NFLUX*mean(FLUX), which replaces a configured one
C18_FlagIffNFlux ==
    FiltFlagDone =>
        MaskIs(ret.out[1], ret.pre[1], ret.pre[2], Ceilings(ret.pre[1], ret.pre[2]))

\* a call that flags a sample of FLUX, not flagged before, for an NFLUX
\* ceiling that is all the 'fit' dict holds
NFluxAlone ==
    /\ FiltFlagDone
    /\ Has(ret.pre[1], "FLUX")
    /\ DOMAIN ret.pre[2] = {"max error"}
    /\ DOMAIN ret.pre[2]["max error"] = {"NFLUX"}
    /\ \E j \in 1..2 : ret.out[1][1][j] /\ ~ret.pre[1].f["FLAG"][1][j]

C18_Witness == NFluxAlone
(***************************************************************************)
(* mergeOI: the concatenation of the tables both hold                      *)
(***************************************************************************)
MergeCalled == ret.op = "mergeOI"

\* the merge loop before and after input j of the last call was merged
Before(j) == MergeLoop(SubSeq(ret.pre, 1, j - 1))

After(j) == MergeLoop(SubSeq(ret.pre, 1, j))

\* input j goes into a merged dataset that exists: its place in the list
Target(j) ==
    IF Before(j).st = "ok" /\ Setup(ret.pre[j]) \in Range(Before(j).merged)
    THEN IndexOf(Before(j).merged, Setup(ret.pre[j])) ELSE 0

\* the pairs <<category, name>> that input j and its target both hold
Shared(j) ==
    IF Target(j) = 0 THEN {}
    ELSE {x \in Range(Cells(ret.pre[j].tabs)) :
            /\ Has(Before(j).res[Target(j)].tabs, x[1])
            /\ Has(Before(j).res[Target(j)].tabs.f[x[1]], x[2])}

\* the rows of field f that table o of input oi brings: the error and flag
\* columns pass the filters of the 'fit' of oi
Incoming(oi, o, f) ==
    IF oi.hasfit /\ StripE(f) # None /\ Has(o, StripE(f)) THEN filtErr(StripE(f), o, oi.fit)
    ELSE IF oi.hasfit /\ f = "FLAG" THEN filtFlag(o, oi.fit)
    ELSE o.f[f]

\* table m is table r followed by table o of input oi, field by field
Concatenated(m, r, oi, o) ==
    /\ RowFields(m) = RowFields(r)
    /\ \A f \in RowFields(r) :
          /\ Has(o, f)
          /\ m.f[f] = r.f[f] \o Incoming(oi, o, f)
          /\ Len(m.f[f]) = Len(r.f["MJD"]) + Len(o.f["MJD"])
          /\ Len(m.f[f]) = Len(m.f["MJD"])

\* C19: when mergeOI has merged an input into the merged dataset of its
\* signature, every table both held has in every row field the rows of the
\* merged table followed by the rows of the input: the row count is the sum,
\* the earlier rows keep value and place, all fields have the same rows
C19_Concatenated ==
    MergeCalled =>
        \A j \in 2..Len(ret.pre) :
            After(j).st = "ok" =>
                \A x \in Shared(j) :
                    Concatenated(After(j).res[Target(j)].tabs.f[x[1]].f[x[2]],
                                 Before(j).res[Target(j)].tabs.f[x[1]].f[x[2]],
                                 ret.pre[j],
                                 ret.pre[j].tabs.f[x[1]].f[x[2]])

\* a merge of two inputs, the second with a 'fit', that hold the same
\* baseline with rows on both sides
C19_Witness ==
    /\ MergeCalled
    /\ Len(ret.pre) = 2 /\ After(2).st = "ok"
    /\ ret.pre[2].hasfit
    /\ \E x \in Shared(2) :
          /\ x[1] = "OI_VIS2"
          /\ Len(Before(2).res[Target(2)].tabs.f[x[1]].f[x[2]].f["MJD"]) >= 1
          /\ Len(ret.pre[2].tabs.f[x[1]].f[x[2]].f["MJD"]) >= 1
(***************************************************************************)
(* mergeOI: OI_VIS and OI_VIS2 reconciled                                  *)
(***************************************************************************)
\* the observables of a category, with their errors
Observables(c) == IF c = "OI_VIS" THEN {"|V|", "E|V|", "PHI", "EPHI"} ELSE {"V2", "EV2"}

\* the rows table k of category c of merged dataset g had when the merge
\* loop of the last call ended (none when it was not there)
LoopRows(g, c, k) ==
    LET r == MergeLoop(ret.pre).res[g]
    IN IF Has(r.tabs, c) /\ Has(r.tabs.f[c], k) THEN Len(r.tabs.f[c].f[k].f["MJD"]) ELSE 0

\* the rows of table t after the first n are flagged in all channels and hold
\* 1 in the observables of category c
AddedRows(t, c, n) ==
    \A i \in (n + 1)..Len(t.f["MJD"]) :
        /\ \A j \in 1..Len(t.f["FLAG"][i]) : t.f["FLAG"][i][j]
        /\ \A o \in Observables(c) : \A j \in 1..Len(t.f[o][i]) : t.f[o][i][j] = 1

\* the two categories of r hold the same names with the same epochs
SameNamesEpochs(r) ==
    /\ Range(r.tabs.f["OI_VIS"].ks) = Range(r.tabs.f["OI_VIS2"].ks)
    /\ \A k \in Range(r.tabs.f["OI_VIS"].ks) :
          Range(r.tabs.f["OI_VIS"].f[k].f["MJD"]) = Range(r.tabs.f["OI_VIS2"].f[k].f["MJD"])

\* C20: after mergeOI every merged dataset with OI_VIS and OI_VIS2 has the
\* same baseline names in both and, for every name, the same set of epochs;
\* every row added to one side for this is flagged in all channels and has
\* 1 in the observables that side lacked
C20_VisVis2 ==
    (MergedOK /\ ret.args[1] = FALSE) =>
        \A g \in 1..Len(res) :
            (Has(res[g].tabs, "OI_VIS") /\ Has(res[g].tabs, "OI_VIS2")) =>
                /\ SameNamesEpochs(res[g])
                /\ \A c \in {"OI_VIS", "OI_VIS2"} :
                      \A k \in Range(res[g].tabs.f[c].ks) :
                          AddedRows(res[g].tabs.f[c].f[k], c, LoopRows(g, c, k))
(***************************************************************************)
(* mergeOI: the formulas of the merged triangles                           *)
(***************************************************************************)
\* the triangle tables of merged dataset r
T3Of(r) == IF Has(r.tabs, "OI_T3") THEN r.tabs.f["OI_T3"] ELSE EmptyD

\* row i of triangle table T of r points, for leg j, at a row of the table of
\* the leg's baseline whose epoch is within the tolerance of its own
LegInTolerance(r, T, i, j) ==
    LET key == FormulaKey(r, T.f["formula"][2])
        idx == T.f["formula"][2 + j][i]
    IN /\ key # None
       /\ idx \in 0..(Len(r.tabs.f[key].f[T.f["formula"][2][j]].f["MJD"]) - 1)
       /\ Abs(r.tabs.f[key].f[T.f["formula"][2][j]].f["MJD"][idx + 1] - T.f["MJD"][i]) < Tol

\* C21: after mergeOI every formula index of every triangle of every merged
\* dataset is a row of the merged table of the leg's baseline, and the epoch
\* of that row is within 1e-4 day of the epoch of the triangle row
C21_MergedFormula ==
    (MergedOK /\ ret.args[1] = FALSE) =>
        \A g \in 1..Len(res) : \A k \in Range(T3Of(res[g]).ks) :
            \A i \in 1..Len(T3Of(res[g]).f[k].f["MJD"]) : \A j \in 1..3 :
                LegInTolerance(res[g], T3Of(res[g]).f[k], i, j)
(***************************************************************************)
(* _allInOneOI on a dataset that is not collapsed                          *)
(***************************************************************************)
Stacked == <<"OI_VIS", "OI_VIS2", "OI_T3">>

\* the dataset the last _allInOneOI was called on, and what it left
CollapseIn == ret.pre[1]

CollapseOut == res[ret.args[1]]

\* no category of oi holds a table 'all'
NotCollapsed(oi) == \A c \in Range(oi.tabs.ks) : ~Has(oi.tabs.f[c], ALL)

\* the rows of the tables of d in the order of the tables: <<name, row>>
SourceRows(d) ==
    Flatten([x \in 1..Len(d.ks) |-> [j \in 1..Len(d.f[d.ks[x]].f["MJD"]) |-> <<d.ks[x], j>>]])

\* the table 'all' t holds the rows of the tables of d: as many rows, NAME the
\* name of the table each row came from, every field the row it had there
AllOf(t, d) ==
    LET src == SourceRows(d)
    IN /\ Has(t, "NAME") /\ Has(t, "MJD")
       /\ Len(t.f["MJD"]) = Len(src)
       /\ t.f["NAME"] = [i \in 1..Len(src) |-> src[i][1]]
       /\ \A f \in Range(t.ks) \ {"NAME", "formula"} :
             /\ Len(t.f[f]) = Len(src)
             /\ \A i \in 1..Len(src) :
                   /\ Has(d.f[src[i][1]], f)
                   /\ t.f[f][i] = d.f[src[i][1]].f[f][src[i][2]]
       /\ \A k \in Range(d.ks) : \A f \in Range(d.f[k].ks) : Has(t, f)

\* C22: after _allInOneOI on a dataset that was not collapsed, each of
\* OI_VIS, OI_VIS2 and OI_T3 holds the one table 'all' with as many rows as
\* the original tables had together, NAME[i] the name of the table row i came
\* from, every field's row i that row, and the three lists are ['all']
C22_AllInOne ==
    (CollapsedOK /\ NotCollapsed(CollapseIn)) =>
        /\ \A e \in Range(Stacked) \cap Range(CollapseIn.tabs.ks) :
              /\ CollapseOut.tabs.f[e].ks = <<ALL>>
              /\ AllOf(CollapseOut.tabs.f[e].f[ALL], CollapseIn.tabs.f[e])
        /\ CollapseOut.telescopes = <<ALL>>
        /\ CollapseOut.baselines = <<ALL>>
        /\ CollapseOut.triangles = <<ALL>>
(***************************************************************************)
(* _allInOneOI: the formula of the collapsed triangles                     *)
(***************************************************************************)
\* the category the formula of a collapsed dataset points into (lines 1279-1281)
AllKey(oi) == IF Has(oi.tabs, "OI_VIS") THEN "OI_VIS" ELSE "OI_VIS2"

\* in the dataset out collapsed from in, row i of the triangle table 'all'
\* points for leg j at a row of the baseline table 'all' that has the name of
\* the leg in the formula the row had, and no row of that name is nearer in
\* time; the sign is the one of that formula
LegOfAll(in, out, i, j) ==
    LET src == SourceRows(in.tabs.f["OI_T3"])[i]
        fm  == in.tabs.f["OI_T3"].f[src[1]].f["formula"]
        T   == out.tabs.f["OI_T3"].f[ALL]
        B   == out.tabs.f[AllKey(out)].f[ALL]
        idx == T.f["formula"][2 + j][i]
    IN /\ idx \in 0..(Len(B.f["MJD"]) - 1)
       /\ B.f["NAME"][idx + 1] = fm[2][j]
       /\ \A r \in 1..Len(B.f["MJD"]) :
             B.f["NAME"][r] = fm[2][j] =>
                 Abs(B.f["MJD"][idx + 1] - T.f["MJD"][i]) <= Abs(B.f["MJD"][r] - T.f["MJD"][i])
       /\ T.f["formula"][1][j][i] = fm[1][j]

\* C23: in a collapsed dataset every row of the triangle table 'all' points,
\* for each leg, at a row of the collapsed baseline table that has the name
\* of that leg in the row's original formula and the nearest epoch among the
\* rows of that name, and keeps the signs of the original formula
C23_AllFormula ==
    (CollapsedOK /\ NotCollapsed(CollapseIn) /\ Has(CollapseIn.tabs, "OI_T3")) =>
        \A i \in 1..Len(SourceRows(CollapseIn.tabs.f["OI_T3"])) : \A j \in 1..3 :
            LegOfAll(CollapseIn, CollapseOut, i, j)
(***************************************************************************)
(* loadOI: a name in several extensions                                    *)
(***************************************************************************)
\* the rows of name k that the extensions of category c of the last call's
\* file hold for its instrument and target, in file order
ExtRows(c, k) ==
    Flatten([x \in 1..Len(CallFile.hdus) |->
        IF CallFile.hdus[x].ext = c /\ CallFile.hdus[x].insname = CallIns
        THEN RowsOf(CallFile.hdus[x], k, CallParams.ids) ELSE <<>>])

\* the names the extensions of category c hold
ExtNames(c) ==
    UNION {{NameOf(CallFile.hdus[x].rows[i]) : i \in 1..Len(CallFile.hdus[x].rows)} :
              x \in {y \in 1..Len(CallFile.hdus) : CallFile.hdus[y].ext = c}}

\* table t starts with the rows: their epochs in their order (a baseline
\* table may go on with placeholder rows, the others end there)
StartsWith(t, rows, c) ==
    /\ Len(t.f["MJD"]) >= Len(rows)
    /\ SubSeq(t.f["MJD"], 1, Len(rows)) = Col(rows, "mjd")
    /\ c \in {"OI_FLUX", "OI_T3"} => Len(t.f["MJD"]) = Len(rows)

\* C24: for each category, when the extensions of the file hold rows of a
\* name for the instrument and the target, loadOI returns one table of that
\* name holding the rows of all those extensions, those of an earlier
\* extension before those of a later one
C24_Accumulated ==
    CallLoaded =>
        \A c \in {"OI_FLUX", "OI_VIS2", "OI_VIS", "OI_T3"} : \A k \in ExtNames(c) :
            ExtRows(c, k) # <<>> =>
                /\ Has(CallOut.tabs, c) /\ Has(CallOut.tabs.f[c], k)
                /\ StartsWith(CallOut.tabs.f[c].f[k], ExtRows(c, k), c)
(***************************************************************************)
(* loadOI: flags and values that are not numbers                           *)
(***************************************************************************)
\* the observables of a category and their errors
Samples(c) ==
    CASE c = "OI_FLUX" -> {"FLUX", "EFLUX"}
      [] c = "OI_VIS2" -> {"V2", "EV2"}
      [] c = "OI_VIS"  -> {"|V|", "E|V|", "PHI", "EPHI"}
      [] OTHER         -> {"T3AMP", "ET3AMP", "T3PHI", "ET3PHI"}

\* sample (i, j) of table t holds a value that is not a number
NonFinite(t, c, i, j) == \E f \in Samples(c) : ~isfinite(t.f[f][i][j])

\* the samples of the table of name k that came from the file have their
\* flag if and only if the file has it or a value is not a number, and no
\* sample without flag holds a value that is not a number
FlagsOf(t, c, k) ==
    /\ \A i \in 1..Len(t.f["FLAG"]) : \A j \in 1..Len(t.f["FLAG"][i]) :
          ~t.f["FLAG"][i][j] => ~NonFinite(t, c, i, j)
    /\ StartsWith(t, ExtRows(c, k), c) =>
          \A i \in 1..Len(ExtRows(c, k)) : \A j \in 1..Len(t.f["FLAG"][i]) :
              t.f["FLAG"][i][j] <=> (ExtRows(c, k)[i].flag[j] \/ NonFinite(t, c, i, j))

\* C25: in every table of a dataset that loadOI returns without rebinning a
\* sample is flagged if and only if the file flags it or its observable or
\* error is not a number; no sample without flag holds such a value
C25_FlagNonFinite ==
    (CallLoaded /\ ret.args[1].binning = 0) =>
        \A c \in Range(CallOut.tabs.ks) : \A k \in Range(CallOut.tabs.f[c].ks) :
            FlagsOf(CallOut.tabs.f[c].f[k], c, k)
(***************************************************************************)
(* mergeOI: 'fit' dicts that disagree                                      *)
(***************************************************************************)
\* inputs i < j of the last call have one signature and carry different
\* values for the differential key p of rule k
Conflict(i, j, k, p) ==
    /\ i < j /\ Setup(ret.pre[i]) = Setup(ret.pre[j])
    /\ ret.pre[i].hasfit /\ ret.pre[j].hasfit
    /\ k \in DOMAIN ret.pre[i].fit /\ k \in DOMAIN ret.pre[j].fit
    /\ p \in DOMAIN ret.pre[i].fit[k] /\ p \in DOMAIN ret.pre[j].fit[k]
    /\ ret.pre[i].fit[k][p] # ret.pre[j].fit[k][p]

Conflicts ==
    {x \in (1..Len(ret.pre)) \X (1..Len(ret.pre)) \X {"max error", "min error"} \X Global :
        Conflict(x[1], x[2], x[3], x[4])}

\* the merged dataset of input i, and the first input of its signature
MergedOf(i) == res[IndexOf([x \in 1..Len(res) |-> Setup(res[x])], Setup(ret.pre[i]))]

FirstOf(i) == CHOOSE x \in 1..i : /\ Setup(ret.pre[x]) = Setup(ret.pre[i])
                                  /\ \A y \in 1..(x-1) : Setup(ret.pre[y]) # Setup(ret.pre[i])

\* the merged dataset keeps the value of the first input of the signature
FirstWins(x) ==
    /\ FirstOf(x[1]) = x[1]
    /\ MergedOf(x[1]).hasfit
    /\ x[3] \in DOMAIN MergedOf(x[1]).fit
    /\ x[4] \in DOMAIN MergedOf(x[1]).fit[x[3]]
    /\ MergedOf(x[1]).fit[x[3]][x[4]] = ret.pre[x[1]].fit[x[3]][x[4]]

\* C26: when two inputs of one signature carry different values for a
\* differential key (DPHI or NFLUX) of one rule, mergeOI returns, prints a
\* warning for that key, and the merged dataset keeps the value of the first
\* input of the signature
C26_Conflict ==
    MergeCalled =>
        \A x \in Conflicts :
            /\ ret.st = "ok"
            /\ <<x[3], x[4]>> \in Range(ret.out)
            /\ FirstWins(x)

\* the same without the warning
C26_FirstWins ==
    MergeCalled => \A x \in Conflicts : ret.st = "ok" /\ FirstWins(x)
(***************************************************************************)
(* loadOI: files of several instruments                                    *)
(***************************************************************************)
\* the last call named no instrument and the file has several
SeveralCalled ==
    /\ ret.op = "loadOI" /\ Len(ret.args) = 3
    /\ ret.args[1].insname = None
    /\ Len(Instruments(CallFile)) > 1

\* the last call made for instrument i of the file, with the same options
ForInstrument(i) ==
    loadOI(CallFile, Instruments(CallFile)[i], ret.args[1].targname, ret.args[1].binning,
           ret.args[3], ret.args[2])

\* the call returned the datasets of the calls for each instrument
OnePerInstrument ==
    /\ ret.st = "list"
    /\ Len(ret.out) = Len(Instruments(CallFile))
    /\ \A i \in 1..Len(ret.out) : ret.out[i] = ForInstrument(i).ds[1]

\* C27: loadOI called without an instrument name on a file of several
\* instruments returns one dataset per instrument, each the one that loadOI
\* returns for that instrument with the same target name, rebinning factor
\* and telluric override
C27_PerInstrument ==
    SeveralCalled =>
        IF \A i \in 1..Len(Instruments(CallFile)) : ForInstrument(i).st = "ok"
        THEN OnePerInstrument ELSE ret.st = "raise"

\* the same for the calls that give no target name, rebinning or tellurics
C27_Defaults ==
    (/\ SeveralCalled /\ ret.args[1].targname = None
     /\ ret.args[1].binning = 0 /\ ret.args[3] = <<>>) => C27_PerInstrument
(***************************************************************************)
(* loadOI: fabrication and the tables read from the file                   *)
(***************************************************************************)
\* the table of name k of category key holds the rows the file has for k,
\* none of them zero signal and flagged throughout
Ingested(key, k) ==
    /\ HasTable(CallOut, key, k)
    /\ StartsWith(CallOut.tabs.f[key].f[k], ExtRows(key, k), key)
    /\ \A i \in 1..Len(ExtRows(key, k)) : ~FabRow(CallOut.tabs.f[key].f[k], i)

\* the extensions of category c that hold rows for the instrument
ExtsOf(c) == {x \in 1..Len(CallFile.hdus) :
                 CallFile.hdus[x].ext = c /\ CallFile.hdus[x].insname = CallIns}

\* C28: a baseline table read from the extensions of the category the
\* closures are resolved against is in the dataset with its rows as read,
\* and a name is in the ledger only if the extensions of that category hold
\* no row of that name in either orientation
C28_NotReplaced ==
    CallLoaded =>
        /\ \A k \in ExtNames(KeyOf(Scan)) :
              ExtRows(KeyOf(Scan), k) # <<>> => Ingested(KeyOf(Scan), k)
        /\ \A m \in Range(Scan.M) :
              ExtRows(KeyOf(Scan), m) = <<>> /\ ExtRows(KeyOf(Scan), Swap(m)) = <<>>

\* the same for the files with one extension of that category
C28_OneExtension ==
    (CallLoaded /\ Cardinality(ExtsOf(KeyOf(Scan))) <= 1) => C28_NotReplaced
(***************************************************************************)
(* mergeOI: the order of the inputs                                        *)
(***************************************************************************)
\* the error fields of a category
ErrorsOf(c) ==
    CASE c = "OI_FLUX" -> {"EFLUX"}
      [] c = "OI_VIS2" -> {"EV2"}
      [] c = "OI_VIS"  -> {"E|V|", "EPHI"}
      [] OTHER         -> {"ET3AMP", "ET3PHI"}

\* the rows of table t: epoch, errors and flags
ErrFlagRows(t, c) ==
    {<<t.f["MJD"][i], [f \in ErrorsOf(c) \cup {"FLAG"} |-> t.f[f][i]]>> :
        i \in 1..Len(t.f["MJD"])}

\* the last call merged two datasets of one signature and one 'fit' dict
\* into one, without collapse
TwoMerged ==
    /\ MergeCalled /\ ret.st = "ok" /\ ret.args[1] = FALSE
    /\ Len(ret.pre) = 2 /\ Len(res) = 1
    /\ ret.pre[1].hasfit /\ ret.pre[2].hasfit /\ ret.pre[1].fit = ret.pre[2].fit

\* the same call with the two inputs in the other order
Swapped == mergeOI(<<ret.pre[2], ret.pre[1]>>, FALSE, ret.args[2])

\* C29: two datasets of one signature that carry the same 'fit' merge into
\* tables whose rows have the same errors and flags in either input order
C29_OrderFree ==
    TwoMerged =>
        /\ Swapped.st = "ok"
        /\ \A x \in Range(Cells(res[1].tabs)) :
              /\ HasTable(Swapped.res[1], x[1], x[2])
              /\ ErrFlagRows(res[1].tabs.f[x[1]].f[x[2]], x[1])
                 = ErrFlagRows(Swapped.res[1].tabs.f[x[1]].f[x[2]], x[1])

\* the same for the 'fit' dicts of one rule
C29_OneRule ==
    (TwoMerged /\ Cardinality(DOMAIN ret.pre[1].fit) = 1) => C29_OrderFree
(***************************************************************************)
(* loadOI: the fields of the baseline tables                               *)
(***************************************************************************)
\* table t of category c has every field that mergeOI appends
Complete(t, c) == Range(Ext1(c)) \cup Range(Ext2(c)) \subseteq Range(t.ks)

\* C30: every baseline table of a dataset that loadOI returns, fabricated or
\* not, has all the fields of its category, and mergeOI does not fail for a
\* field that a table lacks
C30_FieldsComplete ==
    /\ CallLoaded =>
          \A c \in Range(CallOut.tabs.ks) \cap {"OI_VIS", "OI_VIS2"} :
              \A k \in Range(CallOut.tabs.f[c].ks) : Complete(CallOut.tabs.f[c].f[k], c)
    /\ MergeCalled => ret.err # "KeyError"

\* the same for the tables that are not fabricated
C30_Measured ==
    CallLoaded =>
        \A c \in Range(CallOut.tabs.ks) \cap {"OI_VIS", "OI_VIS2"} :
            \A k \in Range(CallOut.tabs.f[c].ks) :
                ~FabRow(CallOut.tabs.f[c].f[k], 1) => Complete(CallOut.tabs.f[c].f[k], c)
====
